---- MODULE Spec2Model ----
(***************************************************************************)
(* Model of the venue backend (src/backend/main.py).                       *)
(*                                                                         *)
(* Part 1: the WebSocket ConnectionManager (main.py:61-97), the "Presence  *)
(* & Messaging Broker" of the specification.  The registry                 *)
(* active_connections is a Python dict; it is modelled with CPython's      *)
(* layout (an insertion-ordered entry array in which `del` leaves a dummy  *)
(* slot) because broadcast() iterates the live dict across suspension      *)
(* points, and what the iterator does then depends on that layout.         *)
(* Coroutines run on one event loop: the code between two awaits is one    *)
(* atomic step, and every `await ...send_json(...)` is a point where other *)
(* handlers may run.                                                       *)
(***************************************************************************)
EXTENDS Integers, Sequences, FiniteSets, TLC

\* ------------------------------------------------------------------ bounds
\* The user ids.
MaxUsers == 2
\* The number of calls made on the broker in one run.
MaxCalls == 4

Users == 1..MaxUsers

VARIABLES
    entries,         \* active_connections: the dict's entry array, in insertion order
    user_last_seen,  \* user_last_seen: user -> time, 0 = no entry
    now,             \* the last value datetime.utcnow() returned
    calls,           \* number of calls made so far; call number n carries WebSocket n
                     \* (connect) or payload n (send_personal_message, broadcast)
    tasks,           \* coroutines suspended in `await ...send_json(...)`
    sent,            \* per user: the (payload, channel) pairs handed to send_json, in order
    expected,        \* users whose latest Register/Unregister was Register, no failed send since
    lastOp           \* the broker step taken last, and how it ended

vars == <<entries, user_last_seen, now, calls, tasks, sent, expected, lastOp>>

\* ------------------------------------------------------ the registry (dict)

\* The slot `del d[k]` leaves behind (key and value cleared, slot not reused).
Dummy == [key |-> 0, value |-> 0]

IsLive(e) == e.key # 0

\* len(d): ma_used
DictUsed(d) == Cardinality({i \in 1..Len(d) : IsLive(d[i])})

\* d.keys()
DictKeys(d) == {d[i].key : i \in {j \in 1..Len(d) : IsLive(d[j])}}

\* The slots holding key u (the dict keeps at most one).
DictSlots(d, u) == {i \in 1..Len(d) : d[i].key = u}

\* d[u], for u in d
DictGet(d, u) == d[CHOOSE i \in DictSlots(d, u) : TRUE].value

\* del d[u], for u in d
DictDel(d, u) == [i \in 1..Len(d) |-> IF d[i].key = u THEN Dummy ELSE d[i]]

\* The entry array rebuilt without dummies, as a resize does.
Compact(d) == SelectSeq(d, IsLive)

\* The entry slots of a dict created by `{}`: USABLE_FRACTION(PyDict_MINSIZE).
DictUsable == 5

\* d[u] = c: an existing key keeps its slot and gets the new value; a new key is
\* appended, after a resize when no slot is left.
DictSet(d, u, c) ==
    IF DictSlots(d, u) # {}
    THEN [i \in 1..Len(d) |-> IF d[i].key = u THEN [key |-> u, value |-> c] ELSE d[i]]
    ELSE Append(IF Len(d) >= DictUsable THEN Compact(d) ELSE d, [key |-> u, value |-> c])

\* iter(d.items())
DictIter(d) == [di_pos |-> 0, di_used |-> DictUsed(d), len |-> DictUsed(d)]

\* next(it) on dict d: RuntimeError when the dict's size differs from the size at
\* iter() ("changed size during iteration") or when an entry turns up after `len`
\* entries were returned ("keys changed during iteration"); else the next live
\* entry after di_pos, or StopIteration.
IterNext(d, it) ==
    IF it.di_used # DictUsed(d)
    THEN [status |-> "RuntimeError", key |-> 0, value |-> 0, it |-> it]
    ELSE LET live == {i \in (it.di_pos + 1)..Len(d) : IsLive(d[i])} IN
         IF live = {}
         THEN [status |-> "StopIteration", key |-> 0, value |-> 0, it |-> it]
         ELSE IF it.len = 0
         THEN [status |-> "RuntimeError", key |-> 0, value |-> 0, it |-> it]
         ELSE LET i == CHOOSE j \in live : \A k \in live : j <= k IN
              [status |-> "item", key |-> d[i].key, value |-> d[i].value,
               it |-> [di_pos |-> i, di_used |-> it.di_used, len |-> it.len - 1]]

\* ------------------------------------------------------------------- clock

\* datetime.utcnow() after it returned clk: time has passed.
utcnow(clk) == clk + 1

\* ------------------------------------------------- ConnectionManager, pure

\* get_online_users()
get_online_users(d) == DictKeys(d)

\* is_online(user_id)
is_online(d, u) == u \in DictKeys(d)

\* Faulty variant of connect: a user already registered keeps the first channel
\* (setdefault instead of assignment).
connect_keeps_first(d, ls, clk, u, c) ==
    [entries |-> IF u \in DictKeys(d) THEN d ELSE DictSet(d, u, c),
     user_last_seen |-> [ls EXCEPT ![u] = utcnow(clk)],
     now |-> utcnow(clk),
     raised |-> FALSE]

\* connect(websocket, user_id) after `await websocket.accept()`, c the WebSocket
connect(d, ls, clk, u, c) ==
    [entries |-> DictSet(d, u, c),
     user_last_seen |-> [ls EXCEPT ![u] = utcnow(clk)],
     now |-> utcnow(clk),
     raised |-> FALSE]

\* Faulty variant of disconnect: `del` without the membership test, a KeyError for a user
\* that is not registered.
disconnect_unguarded_del(d, ls, clk, u) ==
    IF u \in DictKeys(d)
    THEN [entries |-> DictDel(d, u), user_last_seen |-> [ls EXCEPT ![u] = utcnow(clk)],
          now |-> utcnow(clk), raised |-> FALSE]
    ELSE [entries |-> d, user_last_seen |-> ls, now |-> clk, raised |-> TRUE]

\* disconnect(user_id), the clock having last returned clk
disconnect(d, ls, clk, u) ==
    [entries |-> IF u \in DictKeys(d) THEN DictDel(d, u) ELSE d,
     user_last_seen |-> [ls EXCEPT ![u] = utcnow(clk)],
     now |-> utcnow(clk),
     raised |-> FALSE]

\* The second loop of broadcast(): disconnect(user_id) for each user of the list
\* `disconnected`, in order.
RECURSIVE DisconnectAll(_, _, _, _)
DisconnectAll(d, ls, clk, list) ==
    IF list = <<>>
    THEN [entries |-> d, user_last_seen |-> ls, now |-> clk, raised |-> FALSE]
    ELSE LET r == disconnect(d, ls, clk, Head(list)) IN
         DisconnectAll(r.entries, r.user_last_seen, r.now, Tail(list))

\* Faulty variant of send_personal_lookup: the lookup without the membership test, a
\* KeyError for a user that is not registered.
send_personal_lookup_unguarded(d, u) ==
    IF u \in DictKeys(d)
    THEN [act |-> "send", chan |-> DictGet(d, u)]
    ELSE [act |-> "raise", chan |-> 0]

\* send_personal_message(message, user_id) up to its await: the membership test
\* and the lookup of the channel.
send_personal_lookup(d, u) ==
    IF u \in DictKeys(d)
    THEN [act |-> "send", chan |-> DictGet(d, u)]
    ELSE [act |-> "return", chan |-> 0]

\* Faulty variant of send_personal_after: the except clause swallows the error and leaves
\* the user registered.
send_personal_after_pass(d, ls, clk, u, ok) ==
    [entries |-> d, user_last_seen |-> ls, now |-> clk, raised |-> FALSE]

\* send_personal_message after its await: the send returned (ok) or raised; the
\* bare except calls disconnect(user_id).
send_personal_after(d, ls, clk, u, ok) ==
    IF ok
    THEN [entries |-> d, user_last_seen |-> ls, now |-> clk, raised |-> FALSE]
    ELSE disconnect(d, ls, clk, u)

\* Faulty variant of broadcast_collect: a failed send is not recorded.
broadcast_collect_none(disc, u, ok) == disc

\* Faulty variant of broadcast_collect: every recipient is recorded, failed or not.
broadcast_collect_all(disc, u, ok) == Append(disc, u)

\* The except clause of broadcast(): disconnected.append(user_id).
broadcast_collect(disc, u, ok) == IF ok THEN disc ELSE Append(disc, u)

\* Faulty variant of broadcast_unregisters: the second loop stops after its first user.
broadcast_unregisters_first(disc) == IF disc = <<>> THEN disc ELSE <<Head(disc)>>

\* What the second loop of broadcast() unregisters: the list `disconnected`.
broadcast_unregisters(disc) == disc

\* ------------------------------------------------------------------- state

NoOp == [op |-> "init", user |-> 0, msg |-> 0, result |-> "returned",
         failed |-> {}, succeeded |-> {}, prev |-> [op |-> "init", user |-> 0]]

\* A step of the broker: the operation, its user (for broadcast: the recipient of
\* the send it is suspended in), the number of its call, how the step ended
\* (returned, raised, or suspended in a send), the users whose send failed and
\* succeeded in the call so far, and the operation and user of the step before.
Op(o, u, m, res, f, s) ==
    [op |-> o, user |-> u, msg |-> m, result |-> res, failed |-> f, succeeded |-> s,
     prev |-> [op |-> lastOp.op, user |-> lastOp.user]]

\* A coroutine suspended in send_json: the payload, the recipient and channel of
\* the pending send and, for broadcast(), the dict iterator and the list
\* `disconnected`.  failed/succeeded record the outcomes of its sends so far.
Task(k, m, u, c, it, disc, f, s) ==
    [kind |-> k, msg |-> m, user |-> u, chan |-> c, it |-> it,
     disconnected |-> disc, failed |-> f, succeeded |-> s]

\* The state of the other parts of the program, which make no step while the
\* broker is checked on its own: the connection handlers (Part 2), the receipt
\* parser (Part 3) and the REST endpoints with their tables (Parts 4 to 6).
VARIABLES
    handlers,        \* the coroutines of websocket_endpoint and send_chat_message
    chat_messages,   \* the rows of table chat_messages, in insertion order
    frames,          \* number of inbound frames and chat posts handled so far
    wsLast,          \* the handler step taken last
    users,           \* table users: id -> row
    ocr_text,        \* the argument of the parse_receipt_ocr call
    result,          \* what the call returned
    private_messages, \* the rows of table private_messages, in insertion order
    costs,           \* the rows of table costs, in insertion order
    receipts,        \* the rows of table receipts, in insertion order
    restLast         \* the REST request handled last, and its response

wsVars == <<handlers, chat_messages, frames, wsLast>>

parserVars == <<ocr_text, result>>

restVars == <<private_messages, costs, receipts, restLast>>

\* No connection was ever opened and no chat message posted.
WsIdle ==
    /\ handlers = <<>>
    /\ chat_messages = <<>>
    /\ frames = 0
    /\ wsLast = [step |-> "init", ws |-> 0, in |-> <<>>]

\* parse_receipt_ocr has not been called.
ParserIdle ==
    /\ ocr_text = <<>>
    /\ result = [called |-> FALSE]

\* No REST request was made and the tables are empty.
RestIdle ==
    /\ private_messages = <<>>
    /\ costs = <<>>
    /\ receipts = <<>>
    /\ restLast = [op |-> "init"]

Init ==
    /\ entries = <<>>
    /\ user_last_seen = [u \in Users |-> 0]
    /\ now = 0
    /\ calls = 0
    /\ tasks = {}
    /\ sent = [u \in Users |-> <<>>]
    /\ expected = {}
    /\ lastOp = NoOp
    /\ users = <<>>
    /\ WsIdle
    /\ ParserIdle
    /\ RestIdle

\* connect(websocket, user_id), from the return of `await websocket.accept()`.
Connect(u) ==
    /\ calls < MaxCalls
    /\ calls' = calls + 1
    /\ LET r == connect(entries, user_last_seen, now, u, calls + 1) IN
          /\ entries' = r.entries
          /\ user_last_seen' = r.user_last_seen
          /\ now' = r.now
          /\ lastOp' = Op("connect", u, calls + 1,
                          IF r.raised THEN "raised" ELSE "returned", {}, {})
    /\ expected' = expected \cup {u}
    /\ UNCHANGED <<tasks, sent>>
    /\ UNCHANGED <<users, wsVars, parserVars, restVars>>

\* disconnect(user_id), called by a connection handler.
Disconnect(u) ==
    /\ calls < MaxCalls
    /\ calls' = calls + 1
    /\ LET r == disconnect(entries, user_last_seen, now, u) IN
          /\ entries' = r.entries
          /\ user_last_seen' = r.user_last_seen
          /\ now' = r.now
          /\ lastOp' = Op("disconnect", u, calls + 1,
                          IF r.raised THEN "raised" ELSE "returned", {}, {})
    /\ expected' = expected \ {u}
    /\ UNCHANGED <<tasks, sent>>
    /\ UNCHANGED <<users, wsVars, parserVars, restVars>>

\* send_personal_message(message, user_id), the call.
SendCall(u) ==
    /\ calls < MaxCalls
    /\ calls' = calls + 1
    /\ LET r == send_personal_lookup(entries, u)
           m == calls + 1 IN
       IF r.act = "send"
       THEN /\ sent' = [sent EXCEPT ![u] = Append(@, [msg |-> m, chan |-> r.chan])]
            /\ tasks' = tasks \cup {Task("send", m, u, r.chan, DictIter(<<>>),
                                         <<>>, {}, {})}
            /\ lastOp' = Op("send_personal_message", u, m, "suspended", {}, {})
       ELSE /\ UNCHANGED <<sent, tasks>>
            /\ lastOp' = Op("send_personal_message", u, m,
                            IF r.act = "return" THEN "returned" ELSE "raised", {}, {})
    /\ UNCHANGED <<entries, user_last_seen, now, expected>>
    /\ UNCHANGED <<users, wsVars, parserVars, restVars>>

\* send_personal_message, resumed with the outcome of its send.
SendResume(task, ok) ==
    /\ task \in tasks
    /\ task.kind = "send"
    /\ LET r == send_personal_after(entries, user_last_seen, now, task.user, ok) IN
          /\ entries' = r.entries
          /\ user_last_seen' = r.user_last_seen
          /\ now' = r.now
          /\ lastOp' = Op("send_personal_message", task.user, task.msg,
                          IF r.raised THEN "raised" ELSE "returned",
                          IF ok THEN {} ELSE {task.user}, IF ok THEN {task.user} ELSE {})
    /\ tasks' = tasks \ {task}
    /\ expected' = IF ok THEN expected ELSE expected \ {task.user}
    /\ UNCHANGED <<calls, sent>>
    /\ UNCHANGED <<users, wsVars, parserVars, restVars>>

\* broadcast() from the head of its for statement to its next await or its end:
\* next() on the live dict, then either the next send_json (the coroutine is
\* suspended again), or the end of the loop and disconnect() for every collected
\* user, or the RuntimeError of the iterator, which nothing catches.
\* `old` is the suspended coroutine this step resumes ({} for the call itself).
BroadcastAdvance(old, task) ==
    LET r == IterNext(entries, task.it) IN
    IF r.status = "item"
    THEN /\ sent' = [sent EXCEPT ![r.key] = Append(@, [msg |-> task.msg, chan |-> r.value])]
         /\ tasks' = (tasks \ old) \cup
                     {[task EXCEPT !.user = r.key, !.chan = r.value, !.it = r.it]}
         /\ lastOp' = Op("broadcast", r.key, task.msg, "suspended",
                         task.failed, task.succeeded)
         /\ UNCHANGED <<entries, user_last_seen, now>>
    ELSE IF r.status = "StopIteration"
    THEN /\ LET s == DisconnectAll(entries, user_last_seen, now,
                                   broadcast_unregisters(task.disconnected)) IN
               /\ entries' = s.entries
               /\ user_last_seen' = s.user_last_seen
               /\ now' = s.now
               /\ lastOp' = Op("broadcast", 0, task.msg,
                               IF s.raised THEN "raised" ELSE "returned",
                               task.failed, task.succeeded)
         /\ tasks' = tasks \ old
         /\ UNCHANGED sent
    ELSE /\ tasks' = tasks \ old
         /\ lastOp' = Op("broadcast", 0, task.msg, "raised",
                         task.failed, task.succeeded)
         /\ UNCHANGED <<entries, user_last_seen, now, sent>>

\* broadcast(message), the call.
BroadcastCall ==
    /\ calls < MaxCalls
    /\ calls' = calls + 1
    /\ BroadcastAdvance({}, Task("broadcast", calls + 1, 0, 0, DictIter(entries),
                                 <<>>, {}, {}))
    /\ UNCHANGED expected
    /\ UNCHANGED <<users, wsVars, parserVars, restVars>>

\* broadcast(), resumed with the outcome of its pending send.
BroadcastResume(task, ok) ==
    /\ task \in tasks
    /\ task.kind = "broadcast"
    /\ BroadcastAdvance({task},
          [task EXCEPT !.disconnected = broadcast_collect(@, task.user, ok),
                       !.failed = IF ok THEN @ ELSE @ \cup {task.user},
                       !.succeeded = IF ok THEN @ \cup {task.user} ELSE @])
    /\ expected' = IF ok THEN expected ELSE expected \ {task.user}
    /\ UNCHANGED calls
    /\ UNCHANGED <<users, wsVars, parserVars, restVars>>

\* The calls a handler can make on the broker, and the resumptions of suspended
\* coroutines by the event loop.
Calls ==
    \/ \E u \in Users : Connect(u)
    \/ \E u \in Users : Disconnect(u)
    \/ \E u \in Users : SendCall(u)
    \/ BroadcastCall

Resumes ==
    \/ \E task \in tasks, ok \in BOOLEAN : SendResume(task, ok)
    \/ \E task \in tasks, ok \in BOOLEAN : BroadcastResume(task, ok)

\* Handlers run concurrently on the event loop: any call may be made while other
\* coroutines are suspended in a send.
Next == Calls \/ Resumes

Spec == Init /\ [][Next]_vars

\* One caller at a time: a call is made only when no coroutine is suspended, so
\* every call runs to its end before the next one starts.
SeqNext == (tasks = {} /\ Calls) \/ Resumes

SeqSpec == Init /\ [][SeqNext]_vars

\* ------------------------------------------------------------------ claims

\* The step just taken was the call itself (not the resumption of a coroutine).
IsCall == calls' = calls + 1

\* C1: after any sequence of Register, Unregister, SendToUser and Broadcast calls
\* (each run to its end, whatever the outcomes of the sends), get_online_users()
\* is exactly the set of users whose latest Register/Unregister was a Register
\* and to whom no send has failed since.
C1_OnlineUsersMatchHistory ==
    tasks = {} => get_online_users(entries) = expected

\* A broadcast has ended in which a send failed, while another user registered
\* and stays online.
C1_Witness ==
    /\ tasks = {}
    /\ lastOp.op = "broadcast"
    /\ lastOp.result = "returned"
    /\ lastOp.failed # {}
    /\ expected # {}
    /\ get_online_users(entries) = expected

\* C2: the registry never holds two channels for one user; Register(u, c) leaves u
\* mapped to c, every other user as it was; and every payload handed to a channel
\* of u goes to the channel the registry holds for u at that moment, so never to
\* a channel that a later Register replaced.
C2_OneChannelPerUser ==
    [][/\ \A u \in Users : Cardinality(DictSlots(entries', u)) <= 1
       /\ lastOp'.op = "connect" =>
             /\ DictGet(entries', lastOp'.user) = lastOp'.msg
             /\ get_online_users(entries') = get_online_users(entries) \cup {lastOp'.user}
             /\ \A v \in get_online_users(entries) \ {lastOp'.user} :
                   DictGet(entries', v) = DictGet(entries, v)
       /\ \A u \in Users : sent'[u] # sent[u] =>
             /\ is_online(entries, u)
             /\ sent'[u] = Append(sent[u], [msg |-> lastOp'.msg,
                                            chan |-> DictGet(entries, u)])
      ]_vars

\* A user registered twice got a payload on the first channel and, after the
\* second Register, one on the second channel.
C2_Witness ==
    \E u \in Users :
        /\ Len(sent[u]) >= 2
        /\ is_online(entries, u)
        /\ sent[u][1].chan # DictGet(entries, u)
        /\ sent[u][Len(sent[u])].chan = DictGet(entries, u)

\* C3: with one caller at a time, while a Broadcast is sending the registry does
\* not change, and when it ends it has attempted every registered user, the
\* users whose send failed are unregistered and those whose send succeeded are
\* still registered.
C3_BroadcastUnregistersFailed ==
    [][/\ (lastOp'.op = "broadcast" /\ lastOp'.result = "suspended") =>
             entries' = entries
       /\ (lastOp'.op = "broadcast" /\ lastOp'.result = "returned") =>
             /\ lastOp'.failed \cup lastOp'.succeeded = get_online_users(entries)
             /\ lastOp'.failed \cap lastOp'.succeeded = {}
             /\ \A u \in lastOp'.failed : ~is_online(entries', u)
             /\ \A u \in lastOp'.succeeded : is_online(entries', u)
      ]_vars

\* A Broadcast ended after two failed sends, both users unregistered.
C3_Witness ==
    /\ lastOp.op = "broadcast"
    /\ lastOp.result = "returned"
    /\ Cardinality(lastOp.failed) >= 2
    /\ get_online_users(entries) = {}

\* C4: a SendToUser(u, m) whose send fails ends with u unregistered, returns
\* normally, and leaves every other user's registry entry as it was.
C4_SendFailureUnregisters ==
    [][(lastOp'.op = "send_personal_message" /\ lastOp'.failed # {}) =>
          /\ lastOp'.result = "returned"
          /\ ~is_online(entries', lastOp'.user)
          /\ \A v \in Users \ {lastOp'.user} :
                /\ is_online(entries', v) = is_online(entries, v)
                /\ is_online(entries, v) => DictGet(entries', v) = DictGet(entries, v)
      ]_vars

\* A send to a registered user failed: the user is gone, another is still online.
C4_Witness ==
    /\ lastOp.op = "send_personal_message"
    /\ lastOp.failed # {}
    /\ lastOp.result = "returned"
    /\ ~is_online(entries, lastOp.user)
    /\ get_online_users(entries) # {}

\* C5: Broadcast never raises an error to its caller, whatever Register and
\* Unregister calls are made while it is suspended in a send.
C5_BroadcastNeverRaises ==
    ~(lastOp.op = "broadcast" /\ lastOp.result = "raised")

\* C6: for every recipient, the payloads are handed to the recipient's channel in
\* the order in which their calls were made (payloads are numbered in call order),
\* also when several calls are suspended in a send at the same time.
C6_PerRecipientOrder ==
    \A u \in Users : \A i, j \in 1..Len(sent[u]) :
        i < j => sent[u][i].msg <= sent[u][j].msg

\* C7: SendToUser(u, m) for a user that is not registered hands no payload to any
\* channel, returns normally, and changes neither the registry nor the last-seen
\* map.
C7_SendToAbsentIsNoOp ==
    [][(lastOp'.op = "send_personal_message" /\ IsCall
            /\ ~is_online(entries, lastOp'.user)) =>
          /\ lastOp'.result = "returned"
          /\ sent' = sent
          /\ tasks' = tasks
          /\ entries' = entries
          /\ user_last_seen' = user_last_seen
      ]_vars

\* SendToUser was called for a user that is not registered, while another is.
C7_Witness ==
    /\ lastOp.op = "send_personal_message"
    /\ lastOp.result = "returned"
    /\ lastOp.failed \cup lastOp.succeeded = {}
    /\ ~is_online(entries, lastOp.user)
    /\ get_online_users(entries) # {}

\* C8: an Unregister(u) directly after an Unregister(u) returns normally and
\* leaves the registry, and so is_online and get_online_users, as the first left
\* them.
C8_UnregisterIdempotent ==
    [][(lastOp.op = "disconnect" /\ lastOp'.op = "disconnect" /\ IsCall
            /\ lastOp'.user = lastOp.user) =>
          /\ lastOp'.result = "returned"
          /\ entries' = entries
          /\ get_online_users(entries') = get_online_users(entries)
          /\ \A v \in Users : is_online(entries', v) = is_online(entries, v)
      ]_vars

\* Unregister(u) was called twice in a row for a user that had registered.
C8_Witness ==
    /\ lastOp.op = "disconnect"
    /\ lastOp.prev.op = "disconnect"
    /\ lastOp.prev.user = lastOp.user
    /\ ~is_online(entries, lastOp.user)
    /\ \E i \in 1..Len(entries) : ~IsLive(entries[i])

\* C9: Unregister(u) for a user that is not registered returns normally and
\* changes neither the registry nor any entry of the last-seen map.
C9_UnregisterAbsentIsNoOp ==
    [][(lastOp'.op = "disconnect" /\ IsCall /\ ~is_online(entries, lastOp'.user)) =>
          /\ lastOp'.result = "returned"
          /\ entries' = entries
          /\ user_last_seen' = user_last_seen
      ]_vars

\* C10: every user starts Disconnected; a user becomes Connected only by a Register
\* of that user, and Disconnected again only by an Unregister of that user or by a
\* call in which a send to that user failed; so no operation on another user
\* changes the user's state.
C10_PerUserStateMachine ==
    /\ \A u \in Users : ~is_online(entries, u)
    /\ [][\A u \in Users :
            /\ (~is_online(entries, u) /\ is_online(entries', u)) =>
                  (lastOp'.op = "connect" /\ lastOp'.user = u)
            /\ (is_online(entries, u) /\ ~is_online(entries', u)) =>
                  \/ lastOp'.op = "disconnect" /\ lastOp'.user = u
                  \/ /\ lastOp'.op \in {"send_personal_message", "broadcast"}
                     /\ u \in lastOp'.failed
         ]_vars

\* A Broadcast ended in which one send failed and one succeeded: the first user is
\* Disconnected again, the second still Connected.
C10_Witness ==
    /\ lastOp.op = "broadcast"
    /\ lastOp.result = "returned"
    /\ lastOp.failed # {}
    /\ lastOp.succeeded # {}
    /\ get_online_users(entries) = lastOp.succeeded

\* =========================================================================
\* Part 2: the connection handlers: websocket_endpoint (main.py:1405-1471)
\* and send_chat_message (main.py:1216-1237), which call the broker of Part 1.
\* A handler is a coroutine on the same event loop: it runs from one await to
\* the next in one step.  manager.broadcast() is inlined in the handler that
\* awaits it, so its suspension points are the handler's.
\* =========================================================================

\* ------------------------------------------------------------------ bounds
\* The user ids that have a row in table users.
MaxWsUsers == 2
\* The WebSocket connections opened in one run.
MaxConns == 2
\* The inbound frames and chat posts handled in one run.
MaxFrames == 2
\* The chat posts (POST /api/chat/messages) that reach the broadcast in one run.
MaxPosts == 1

WsUsers == 1..MaxWsUsers

\* A row of table users.
UserRow(active) == [is_active |-> active]

\* ------------------------------------------------------------------ tokens

\* The path parameter `token`: whether jwt.decode accepts it (signature, expiry)
\* and the user id its "sub" carries; the last id is one without a row.
Tokens == [valid : BOOLEAN, sub : 1..(MaxWsUsers + 1)]

\* verify_token(token): the payload, or None (ok = FALSE) on a JWTError.
verify_token(t) ==
    IF t.valid THEN [ok |-> TRUE, sub |-> t.sub] ELSE [ok |-> FALSE, sub |-> 0]

\* Faulty variant of ws_authenticate: the user lookup is skipped.
ws_authenticate_no_lookup(t, table) ==
    LET payload == verify_token(t) IN
    IF ~payload.ok THEN [accept |-> FALSE, user_id |-> 0]
    ELSE [accept |-> TRUE, user_id |-> payload.sub]

\* The head of websocket_endpoint: the token is verified, its "sub" read as the
\* user id and the user looked up; without a payload or without a row the
\* connection is closed with code 4001.
ws_authenticate(t, table) ==
    LET payload == verify_token(t) IN
    IF ~payload.ok THEN [accept |-> FALSE, user_id |-> 0]
    ELSE IF payload.sub \notin DOMAIN table THEN [accept |-> FALSE, user_id |-> 0]
    ELSE [accept |-> TRUE, user_id |-> payload.sub]

\* ----------------------------------------------------------------- strings

\* A str is modelled by its runs of equal characters: ch " " is whitespace, any
\* other ch is not; n is the length of the run.
Run(c, k) == [ch |-> c, n |-> k]

RECURSIVE StrLen(_)
\* len(s)
StrLen(s) == IF s = <<>> THEN 0 ELSE Head(s).n + StrLen(Tail(s))

RECURSIVE lstrip(_)
\* s.lstrip()
lstrip(s) == IF s # <<>> /\ Head(s).ch = " " THEN lstrip(Tail(s)) ELSE s

RECURSIVE rstrip(_)
\* s.rstrip()
rstrip(s) ==
    IF s # <<>> /\ s[Len(s)].ch = " " THEN rstrip(SubSeq(s, 1, Len(s) - 1)) ELSE s

\* s.strip()
strip(s) == rstrip(lstrip(s))

\* The contents a client submits: empty, whitespace only, text with whitespace
\* around it, text with whitespace inside, and a long text.
Contents ==
    {<<>>,
     <<Run(" ", 2)>>,
     <<Run(" ", 1), Run("a", 3), Run(" ", 2)>>,
     <<Run("a", 1), Run(" ", 1), Run("b", 1)>>,
     <<Run("a", 2001)>>}

\* Faulty variant of ws_content: the content is taken as received.
ws_content_raw(v) == v

\* `content = data.get("content", "").strip()` of the message branch.
ws_content(v) == strip(v)

\* Faulty variant of content_not_empty: the check is made but the value is
\* returned as received.
content_not_empty_raw(v) ==
    IF v = <<>> \/ strip(v) = <<>>
    THEN [ok |-> FALSE, value |-> <<>>]
    ELSE [ok |-> TRUE, value |-> v]

\* ChatMessageCreate.content_not_empty (schemas.py:410-415): a ValueError for an
\* empty or whitespace-only value, else the stripped value.
content_not_empty(v) ==
    IF v = <<>> \/ strip(v) = <<>>
    THEN [ok |-> FALSE, value |-> <<>>]
    ELSE [ok |-> TRUE, value |-> strip(v)]

\* ------------------------------------------------------------------ frames

\* What receive_json() delivers: a JSON object with its "type" and "content"
\* ("" when the key is missing); type "malformed" stands for a frame that is no
\* JSON object, on which receive_json() or data.get() raises.
MessageTypes == {"message", "chat_message"}

InboundFrames ==
    [type : {"ping", "typing", "status", "malformed"}, content : {<<>>}]
        \cup [type : MessageTypes, content : Contents]

\* Faulty variant of frame_branch: the chain ends in an else, so every other
\* type is handled as typing.
frame_branch_else_typing(type) ==
    IF type = "ping" THEN "ping"
    ELSE IF type \in MessageTypes THEN "message"
    ELSE "typing"

\* The if/elif chain of the receive loop: the branch taken for a type, "none"
\* when no condition holds.
frame_branch(type) ==
    IF type = "ping" THEN "ping"
    ELSE IF type \in MessageTypes THEN "message"
    ELSE IF type = "typing" THEN "typing"
    ELSE "none"

\* ---------------------------------------------------------------- handlers

\* No broadcast in progress.
NoBc == [type |-> "", user_id |-> 0, content |-> <<>>, it |-> DictIter(<<>>),
         disconnected |-> <<>>, to |-> 0, chan |-> 0, after |-> ""]

\* A coroutine: kind "ws" (websocket_endpoint; its index in `handlers` is its
\* WebSocket) or "rest" (send_chat_message); where it stands (pc); the user id;
\* whether the peer of the WebSocket is still there (open); and the broadcast it
\* is suspended in: the event, the dict iterator, the list `disconnected`, the
\* recipient and channel of the pending send_json, and where the coroutine goes
\* on when the broadcast returns.
Handler(k, p, u, o, b) == [kind |-> k, pc |-> p, user |-> u, open |-> o, bc |-> b]

\* broadcast() from the head of its for statement to its next await or its end,
\* on registry d: the handler is suspended in the next send_json, or the loop is
\* over and every collected user is unregistered, or the iterator raises, which
\* neither broadcast() nor the handler catches: the handler ends and the server
\* closes its connection.
broadcast_advance(d, ls, clk, h) ==
    LET r == IterNext(d, h.bc.it) IN
    IF r.status = "item"
    THEN [entries |-> d, user_last_seen |-> ls, now |-> clk,
          handler |-> [h EXCEPT !.pc = "broadcast", !.bc.it = r.it,
                                !.bc.to = r.key, !.bc.chan = r.value]]
    ELSE IF r.status = "StopIteration"
    THEN LET s == DisconnectAll(d, ls, clk, broadcast_unregisters(h.bc.disconnected)) IN
         [entries |-> s.entries, user_last_seen |-> s.user_last_seen, now |-> s.now,
          handler |-> [h EXCEPT !.pc = h.bc.after, !.bc = NoBc]]
    ELSE [entries |-> d, user_last_seen |-> ls, now |-> clk,
          handler |-> [h EXCEPT !.pc = "failed", !.open = FALSE, !.bc = NoBc]]

\* `await manager.broadcast(event)` by handler h, up to its first await.
broadcast_call(d, ls, clk, h, type, user_id, content, after) ==
    broadcast_advance(d, ls, clk,
        [h EXCEPT !.bc = [type |-> type, user_id |-> user_id, content |-> content,
                          it |-> DictIter(d), disconnected |-> <<>>,
                          to |-> 0, chan |-> 0, after |-> after]])

\* Faulty variant of on_disconnect: the user_offline event is broadcast before
\* the user is unregistered.
on_disconnect_broadcast_first(d, ls, clk, h) ==
    LET b == broadcast_call(d, ls, clk, h, "user_offline", h.user, <<>>, "ended")
        r == disconnect(b.entries, b.user_last_seen, b.now, h.user) IN
    [entries |-> r.entries, user_last_seen |-> r.user_last_seen, now |-> r.now,
     handler |-> b.handler]

\* The except WebSocketDisconnect clause: manager.disconnect(user_id), then the
\* broadcast of user_offline, after which the handler returns.
on_disconnect(d, ls, clk, h) ==
    LET r == disconnect(d, ls, clk, h.user) IN
    broadcast_call(r.entries, r.user_last_seen, r.now, h,
                   "user_offline", h.user, <<>>, "ended")

\* send_json on WebSocket c returns when the peer is there and raises when the
\* connection is gone.
send_ok(hs, c) == hs[c].open

WsStep(s, k, i) == [step |-> s, ws |-> k, in |-> i]

WsInit ==
    /\ entries = <<>>
    /\ user_last_seen = [u \in WsUsers |-> 0]
    /\ now = 0
    /\ calls = 0
    /\ tasks = {}
    /\ sent = [u \in Users |-> <<>>]
    /\ expected = {}
    /\ lastOp = NoOp
    /\ users = [u \in WsUsers |-> UserRow(TRUE)]
    /\ WsIdle
    /\ ParserIdle
    /\ RestIdle

\* The variables the handlers do not touch: those of Part 1 and Part 3, the
\* table users and the tables of the REST endpoints.
wsOther == <<calls, tasks, sent, expected, lastOp, users, parserVars, restVars>>

\* The state a handler step leaves: registry, clock and handler k from r.
WsResult(r, k, hs) ==
    /\ entries' = r.entries
    /\ user_last_seen' = r.user_last_seen
    /\ now' = r.now
    /\ handlers' = [hs EXCEPT ![k] = r.handler]

\* websocket_endpoint from its call to its first suspension in a send (or its
\* return): authentication, manager.connect() and the call of the user_online
\* broadcast.  The new WebSocket is number Len(handlers) + 1.
Open(t) ==
    /\ LET a == ws_authenticate(t, users)
           k == Len(handlers) + 1 IN
       IF ~a.accept
       THEN /\ wsLast' = WsStep("close_4001", k, t)
            /\ UNCHANGED <<entries, user_last_seen, now, handlers>>
       ELSE LET h == Handler("ws", "connect", a.user_id, TRUE, NoBc)
                c == connect(entries, user_last_seen, now, a.user_id, k)
                r == broadcast_call(c.entries, c.user_last_seen, c.now, h,
                                    "user_online", a.user_id, <<>>, "receive") IN
            /\ WsResult(r, k, Append(handlers, h))
            /\ wsLast' = WsStep("connect", k, t)
    /\ UNCHANGED <<chat_messages, frames, wsOther>>

\* The handler (or send_chat_message) resumed from the send_json its broadcast
\* was suspended in.
Resume(k) ==
    /\ k \in 1..Len(handlers)
    /\ handlers[k].pc = "broadcast"
    /\ LET h == handlers[k]
           ok == send_ok(handlers, h.bc.chan)
           r == broadcast_advance(entries, user_last_seen, now,
                    [h EXCEPT !.bc.disconnected = broadcast_collect(@, h.bc.to, ok)]) IN
       /\ WsResult(r, k, handlers)
       /\ wsLast' = WsStep("resume", 0, <<>>)
    /\ UNCHANGED <<chat_messages, frames, wsOther>>

\* One turn of the receive loop: receive_json() returns frame f, and the branch
\* for its type runs to its await (or to the head of the loop).
Frame(k, f) ==
    /\ frames < MaxFrames
    /\ k \in 1..Len(handlers)
    /\ handlers[k].pc = "receive"
    /\ handlers[k].open
    /\ frames' = frames + 1
    /\ wsLast' = WsStep("frame", k, f)
    /\ LET h == handlers[k]
           branch == frame_branch(f.type)
           content == ws_content(f.content) IN
       IF f.type = "malformed"
       THEN /\ handlers' = [handlers EXCEPT ![k].pc = "failed", ![k].open = FALSE]
            /\ UNCHANGED <<entries, user_last_seen, now, chat_messages>>
       ELSE IF branch = "ping"
       THEN /\ handlers' = [handlers EXCEPT ![k].pc = "pong"]
            /\ UNCHANGED <<entries, user_last_seen, now, chat_messages>>
       ELSE IF branch = "message" /\ content # <<>>
       THEN /\ chat_messages' = Append(chat_messages,
                                       [sender_id |-> h.user, content |-> content])
            /\ WsResult(broadcast_call(entries, user_last_seen, now, h, "chat_message",
                                       h.user, content, "receive"), k, handlers)
       ELSE IF branch = "typing"
       THEN /\ WsResult(broadcast_call(entries, user_last_seen, now, h, "user_typing",
                                       h.user, <<>>, "receive"), k, handlers)
            /\ UNCHANGED chat_messages
       ELSE UNCHANGED <<entries, user_last_seen, now, handlers, chat_messages>>
    /\ UNCHANGED wsOther

\* The handler resumed from the send_json of its pong.  On a connection that
\* is gone the send raises: WebSocketDisconnect, which the handler catches, or
\* another error, which it does not (which one depends on the server library).
Pong(k, exc) ==
    /\ k \in 1..Len(handlers)
    /\ handlers[k].pc = "pong"
    /\ wsLast' = WsStep("pong", 0, <<>>)
    /\ IF handlers[k].open
       THEN /\ handlers' = [handlers EXCEPT ![k].pc = "receive"]
            /\ UNCHANGED <<entries, user_last_seen, now>>
       ELSE IF exc = "WebSocketDisconnect"
       THEN WsResult(on_disconnect(entries, user_last_seen, now, handlers[k]), k, handlers)
       ELSE /\ handlers' = [handlers EXCEPT ![k].pc = "failed"]
            /\ UNCHANGED <<entries, user_last_seen, now>>
    /\ UNCHANGED <<chat_messages, frames, wsOther>>

\* The peer of WebSocket k goes away (explicit close or network failure) while
\* its handler is running.
ClientClose(k) ==
    /\ k \in 1..Len(handlers)
    /\ handlers[k].kind = "ws"
    /\ handlers[k].open
    /\ handlers[k].pc \in {"receive", "broadcast", "pong"}
    /\ handlers' = [handlers EXCEPT ![k].open = FALSE]
    /\ wsLast' = WsStep("client_close", 0, <<>>)
    /\ UNCHANGED <<entries, user_last_seen, now, chat_messages, frames, wsOther>>

\* receive_json() raises WebSocketDisconnect: the except clause runs to the first
\* await of its broadcast.
Disconnected(k) ==
    /\ k \in 1..Len(handlers)
    /\ handlers[k].pc = "receive"
    /\ ~handlers[k].open
    /\ WsResult(on_disconnect(entries, user_last_seen, now, handlers[k]), k, handlers)
    /\ wsLast' = WsStep("disconnect", 0, <<>>)
    /\ UNCHANGED <<chat_messages, frames, wsOther>>

\* POST /api/chat/messages by user u (authenticated by get_current_user) with
\* content v: validation by ChatMessageCreate (a 422 on failure), the insert, and
\* the call of the broadcast.
PostChat(u, v) ==
    /\ frames < MaxFrames
    /\ u \in DOMAIN users
    /\ frames' = frames + 1
    /\ LET data == content_not_empty(v)
           k == Len(handlers) + 1
           h == Handler("rest", "validated", u, FALSE, NoBc) IN
       IF ~data.ok
       THEN /\ wsLast' = WsStep("post_422", k, [type |-> "post", content |-> v])
            /\ UNCHANGED <<entries, user_last_seen, now, handlers, chat_messages>>
       ELSE /\ chat_messages' = Append(chat_messages,
                                       [sender_id |-> u, content |-> data.value])
            /\ WsResult(broadcast_call(entries, user_last_seen, now, h, "chat_message",
                                       u, data.value, "returned"),
                        k, Append(handlers, h))
            /\ wsLast' = WsStep("post", k, [type |-> "post", content |-> v])
    /\ UNCHANGED wsOther

\* The number of WebSocket connections opened so far.
Opened == Cardinality({i \in 1..Len(handlers) : handlers[i].kind = "ws"})

WsNext ==
    \/ Opened < MaxConns /\ \E t \in Tokens : Open(t)
    \/ \E k \in 1..Len(handlers) : Resume(k)
    \/ \E k \in 1..Len(handlers), f \in InboundFrames : Frame(k, f)
    \/ \E k \in 1..Len(handlers),
          exc \in {"WebSocketDisconnect", "RuntimeError"} : Pong(k, exc)
    \/ \E k \in 1..Len(handlers) : ClientClose(k)
    \/ \E k \in 1..Len(handlers) : Disconnected(k)

wsAll == <<vars, users, wsVars, parserVars, restVars>>

\* The WebSocket handlers of up to MaxConns connections, running concurrently.
WsSpec == WsInit /\ [][WsNext]_wsAll

\* The number of send_chat_message calls that passed validation so far.
Posted == Cardinality({i \in 1..Len(handlers) : handlers[i].kind = "rest"})

ChatNext ==
    \/ WsNext
    \/ Posted < MaxPosts /\ \E u \in WsUsers, v \in Contents : PostChat(u, v)

\* The WebSocket handlers and the REST endpoint of the chat, running concurrently.
ChatSpec == WsInit /\ [][ChatNext]_wsAll

\* A run in which these users log in, in this order, and no frame is sent: three
\* users connect and the first connects once more.
Logins == <<1, 2, 3, 1>>

LoginInit ==
    /\ entries = <<>>
    /\ user_last_seen = [u \in {Logins[i] : i \in 1..Len(Logins)} |-> 0]
    /\ now = 0
    /\ calls = 0
    /\ tasks = {}
    /\ sent = [u \in Users |-> <<>>]
    /\ expected = {}
    /\ lastOp = NoOp
    /\ users = [u \in {Logins[i] : i \in 1..Len(Logins)} |-> UserRow(TRUE)]
    /\ WsIdle
    /\ ParserIdle
    /\ RestIdle

LoginNext ==
    \/ Opened < Len(Logins) /\ Open([valid |-> TRUE, sub |-> Logins[Opened + 1]])
    \/ \E k \in 1..Len(handlers) : Resume(k)
    \/ \E k \in 1..Len(handlers) : ClientClose(k)
    \/ \E k \in 1..Len(handlers) : Disconnected(k)

LoginSpec == LoginInit /\ [][LoginNext]_wsAll

\* ------------------------------------------------------- claims of Part 2

\* C11: when the handler of a connection sees its channel disconnect, it first
\* unregisters the user and then broadcasts user_offline naming that user: when
\* the broadcast begins the user is not registered, and no user_offline event is
\* handed to a channel of the user it names.
C11_OfflineAfterUnregister ==
    [][\A k \in 1..Len(handlers') :
          LET h == handlers'[k] IN
          (h.pc = "broadcast" /\ h.bc.type = "user_offline") =>
              /\ h.bc.user_id = h.user
              /\ h.bc.to # h.bc.user_id
              /\ (k <= Len(handlers) /\ handlers[k].bc.type # "user_offline") =>
                    ~is_online(entries', h.user)
      ]_wsAll

\* C12: Register is invoked for a connection only after its token was verified
\* and decoded to the id of a user that has a row, and it registers that user
\* with the connection's WebSocket; a connection with an invalid token or the id
\* of a user without a row is closed, and the registry, the last-seen map and the
\* handlers (so the events being broadcast) are as before.
C12_RegisterOnlyAuthenticated ==
    [][/\ wsLast'.step = "connect" =>
             /\ wsLast'.in.valid
             /\ wsLast'.in.sub \in DOMAIN users
             /\ is_online(entries', wsLast'.in.sub)
             /\ DictGet(entries', wsLast'.in.sub) = wsLast'.ws
       /\ (Opened' # Opened \/ wsLast'.step = "close_4001") =>
             ((~wsLast'.in.valid \/ wsLast'.in.sub \notin DOMAIN users) <=>
                  wsLast'.step = "close_4001")
       /\ wsLast'.step = "close_4001" =>
             /\ entries' = entries
             /\ user_last_seen' = user_last_seen
             /\ handlers' = handlers
       /\ \A u \in DOMAIN user_last_seen :
             (is_online(entries', u) /\ ~is_online(entries, u)) =>
                 (wsLast'.step = "connect" /\ wsLast'.in.sub = u)
      ]_wsAll

\* A connection with a valid token for a user without a row was closed while a
\* user is registered.
C12_Witness ==
    /\ wsLast.step = "close_4001"
    /\ wsLast.in.valid
    /\ wsLast.in.sub \notin DOMAIN users
    /\ get_online_users(entries) # {}

\* C13: an inbound frame whose type is none of ping, message, chat_message and
\* typing is ignored: no event is broadcast and no pong sent, no chat message is
\* persisted, the registry and the last-seen map are unchanged, and the handler
\* is back in its receive loop on the open connection.
C13_UnknownTypeIgnored ==
    [][(/\ wsLast'.step = "frame"
        /\ wsLast'.in.type \notin {"ping", "message", "chat_message", "typing",
                                   "malformed"}) =>
          /\ handlers' = handlers
          /\ handlers'[wsLast'.ws].pc = "receive"
          /\ handlers'[wsLast'.ws].open
          /\ chat_messages' = chat_messages
          /\ entries' = entries
          /\ user_last_seen' = user_last_seen
      ]_wsAll

\* A frame of an unknown type was the second frame of the run, on a connection
\* that is registered.
C13_Witness ==
    /\ wsLast.step = "frame"
    /\ wsLast.in.type = "status"
    /\ frames = 2
    /\ is_online(entries, handlers[wsLast.ws].user)
    /\ DictGet(entries, handlers[wsLast.ws].user) = wsLast.ws

\* The content is its own trimmed form and is not empty.
Trimmed(c) == c = strip(c) /\ c # <<>>

\* C14: every chat message persisted, and every chat_message event being
\* broadcast, whether posted to /api/chat/messages or sent as a WebSocket message
\* event, has a content that equals its trimmed form and is not empty; a
\* submission that is empty or only whitespace persists no message and starts
\* no broadcast.
C14_ContentTrimmedNonEmpty ==
    /\ [](/\ \A i \in 1..Len(chat_messages) : Trimmed(chat_messages[i].content)
          /\ \A k \in 1..Len(handlers) :
                handlers[k].bc.type = "chat_message" => Trimmed(handlers[k].bc.content))
    /\ [][(/\ wsLast'.step \in {"frame", "post", "post_422"}
           /\ wsLast'.in.type \in {"message", "chat_message", "post"}
           /\ strip(wsLast'.in.content) = <<>>) =>
              /\ chat_messages' = chat_messages
              /\ handlers' = handlers
         ]_wsAll

\* A message posted with whitespace around its text and a message sent over a
\* WebSocket were both persisted.
C14_Witness ==
    /\ Len(chat_messages) = 2
    /\ Posted = 1
    /\ \A i \in 1..2 : Trimmed(chat_messages[i].content)
    /\ \E i \in 1..2 : chat_messages[i].content = <<Run("a", 3)>>

\* C15: every chat message persisted, and every chat_message event being
\* broadcast, has a content of at most 2000 code points.
C15_ContentAtMostMaximum ==
    /\ \A i \in 1..Len(chat_messages) : StrLen(chat_messages[i].content) <= 2000
    /\ \A k \in 1..Len(handlers) :
          handlers[k].bc.type = "chat_message" => StrLen(handlers[k].bc.content) <= 2000

\* =========================================================================
\* Part 3: parse_receipt_ocr (main.py:924-1017), a pure function of the OCR
\* text.  The text is modelled as a sequence of tokens, each a maximal piece
\* of the string that the function's regular expressions treat as a unit: a
\* word (letters only), an amount (\d+[.,]\d{2}, kept in cents with its decimal
\* separator), a number (\d+), a date, one whitespace character (space or
\* newline), a colon, a dot, a percent sign.  Two words, and two digit tokens,
\* are never adjacent in a text, so the tokens of a text are the pieces the
\* regular expressions see.  The module is ASCII: the Polish letters of the
\* source's labels are written without their diacritics (GOTOWKA for GOTÓWKA),
\* which changes no length and no comparison between the words used here.
\* =========================================================================

\* ------------------------------------------------------------------ bounds
\* The lines of an OCR text.
MaxLines == 3

\* ------------------------------------------------------------------ tokens

Tok(kind, str, num, dec) == [k |-> kind, s |-> str, n |-> num, sep |-> dec]

Word(str) == Tok("word", str, 0, "")
\* An amount: its value in cents and its decimal separator, "." or ",".
Amount(cents, dec) == Tok("amt", "", cents, dec)
Number(num) == Tok("int", "", num, "")
\* A date written with dashes: fmt "ymd" is \d{4}-\d{2}-\d{2}, "dmy" is
\* \d{2}-\d{2}-\d{4}, "short" is \d{2}-\d{2}-\d{2}.
Date(fmt) == Tok("date", fmt, 0, "")
SP == Tok("sp", " ", 0, "")
NL == Tok("nl", "", 0, "")
COLON == Tok("colon", ":", 0, "")
DOT == Tok("dot", ".", 0, "")
PCT == Tok("pct", "%", 0, "")

\* \s
IsSpace(t) == t.k \in {"sp", "nl"}

\* A token that begins with a digit (every digit of a text is in such a token).
IsDigits(t) == t.k \in {"amt", "int", "date"}

RECURSIVE NumLen(_)
\* The number of digits of n.
NumLen(num) == IF num < 10 THEN 1 ELSE 1 + NumLen(num \div 10)

\* The number of characters of a token.
TokLen(t) ==
    IF t.k = "word" THEN Len(t.s)
    ELSE IF t.k = "amt" THEN NumLen(t.n \div 100) + 3
    ELSE IF t.k = "int" THEN NumLen(t.n)
    ELSE IF t.k = "date" THEN (IF t.s = "short" THEN 8 ELSE 10)
    ELSE 1

RECURSIVE CharLen(_)
\* len(line)
CharLen(line) == IF line = <<>> THEN 0 ELSE TokLen(Head(line)) + CharLen(Tail(line))

\* str.upper() of a word.
upper(str) ==
    CASE str = "Suma" -> "SUMA"
      [] str = "Piwo" -> "PIWO"
      [] str = "Chipsy" -> "CHIPSY"
      [] str = "Cola" -> "COLA"
      [] str = "ul" -> "UL"
      [] str = "Przykladowa" -> "PRZYKLADOWA"
      [] OTHER -> str

\* ocr_text.upper()
text_upper(text) ==
    [i \in 1..Len(text) |-> IF text[i].k = "word" THEN Word(upper(text[i].s)) ELSE text[i]]

RECURSIVE lstrip_tokens(_)
lstrip_tokens(text) ==
    IF text # <<>> /\ IsSpace(Head(text)) THEN lstrip_tokens(Tail(text)) ELSE text

RECURSIVE rstrip_tokens(_)
rstrip_tokens(text) ==
    IF text # <<>> /\ IsSpace(text[Len(text)])
    THEN rstrip_tokens(SubSeq(text, 1, Len(text) - 1))
    ELSE text

\* str.strip() of a text
strip_tokens(text) == rstrip_tokens(lstrip_tokens(text))

RECURSIVE split_lines(_)
\* text.split('\n')
split_lines(text) ==
    LET nls == {i \in 1..Len(text) : text[i].k = "nl"} IN
    IF nls = {} THEN <<text>>
    ELSE LET i == CHOOSE j \in nls : \A m \in nls : j <= m IN
         <<SubSeq(text, 1, i - 1)>> \o split_lines(SubSeq(text, i + 1, Len(text)))

\* An optional value: None, or Some(v).
None == <<>>
Some(v) == <<v>>

\* ------------------------------------------------------------- store name

\* any(c.isdigit() for c in line[:3]): a digit token begins within the first
\* three characters.
digit_in_first_3(line) ==
    \E i \in 1..Len(line) : IsDigits(line[i]) /\ CharLen(SubSeq(line, 1, i - 1)) < 3

RECURSIVE store_name_from(_)
\* The loop over lines[:5]: the first line that, stripped, is longer than 3
\* characters and has no digit among its first 3.
store_name_from(lines) ==
    IF lines = <<>> THEN None
    ELSE LET line == strip_tokens(Head(lines)) IN
         IF CharLen(line) > 3 /\ ~digit_in_first_3(line)
         THEN Some(line)
         ELSE store_name_from(Tail(lines))

\* ------------------------------------------------------------------- date

\* date_patterns: pattern p matches within a date token; the first pattern
\* only a ymd date, the second only a dmy date, the third (two-digit groups) a
\* part of any date.
date_pattern_matches(p, t) ==
    /\ t.k = "date"
    /\ \/ p = 1 /\ t.s = "ymd"
       \/ p = 2 /\ t.s = "dmy"
       \/ p = 3

RECURSIVE date_from(_, _)
\* The loop over date_patterns, from pattern p: re.search gives the leftmost
\* match; the result is the matched part of the token (the token and the pattern).
date_from(text, p) ==
    IF p > 3 THEN None
    ELSE LET hits == {i \in 1..Len(text) : date_pattern_matches(p, text[i])} IN
         IF hits # {}
         THEN Some([token |-> text[CHOOSE i \in hits : \A j \in hits : i <= j],
                    pattern |-> p])
         ELSE date_from(text, p + 1)

\* ------------------------------------------------------------------ total

\* A pattern of total_patterns: its label words, which \s+ separates, and what
\* stands between the label and the amount: "colon" is \s*:?\s*, "letter" is
\* \s*[A-Z]?\s*, "ptu" is \s*[A-Z]?\s*\d+%?\s* with \s*$ after the amount.
Pattern(labels, between) == [labels |-> labels, between |-> between]

total_patterns ==
    <<Pattern(<<"SUMA">>, "colon"),
      Pattern(<<"SUMA", "PLN">>, "colon"),
      Pattern(<<"SUMA", "ZL">>, "colon"),
      Pattern(<<"KWOTA", "DO", "ZAPLATY">>, "colon"),
      Pattern(<<"DO", "ZAPLATY">>, "colon"),
      Pattern(<<"DO", "ZAPLATY", "PLN">>, "colon"),
      Pattern(<<"RAZEM">>, "colon"),
      Pattern(<<"RAZEM", "PLN">>, "colon"),
      Pattern(<<"RAZEM", "ZL">>, "colon"),
      Pattern(<<"WARTOSC", "BRUTTO">>, "colon"),
      Pattern(<<"OGOLEM">>, "colon"),
      Pattern(<<"LACZNIE">>, "colon"),
      Pattern(<<"NALEZNOSC">>, "colon"),
      Pattern(<<"GOTOWKA">>, "colon"),
      Pattern(<<"KARTA">>, "colon"),
      Pattern(<<"PLATNOSC">>, "colon"),
      Pattern(<<"TOTAL">>, "colon"),
      Pattern(<<"SPRZEDAZ", "OPODATKOWANA">>, "letter"),
      Pattern(<<"PTU">>, "ptu")>>

RECURSIVE skip_space(_, _)
\* \s* from position i: the position of the first token that is no whitespace.
skip_space(text, i) ==
    IF i <= Len(text) /\ IsSpace(text[i]) THEN skip_space(text, i + 1) ELSE i

\* The token at position i is of kind kind.
IsAt(text, i, kind) == i <= Len(text) /\ text[i].k = kind

RECURSIVE match_labels(_, _, _)
\* The label words from position i, \s+ between them: the position after the
\* last one, 0 without a match.
match_labels(text, i, labels) ==
    IF ~(IsAt(text, i, "word") /\ text[i].s = Head(labels)) THEN 0
    ELSE IF Len(labels) = 1 THEN i + 1
    ELSE LET j == skip_space(text, i + 1) IN
         IF j = i + 1 THEN 0 ELSE match_labels(text, j, Tail(labels))

\* No match.
NoMatch == [ok |-> FALSE, amount |-> Amount(0, ".")]

\* group(1) of a match: the amount captured.
Match(a) == [ok |-> TRUE, amount |-> a]

\* [A-Z]? from position i: the position after an optional one-letter word.
skip_letter(text, i) ==
    IF IsAt(text, i, "word") /\ Len(text[i].s) = 1 THEN i + 1 ELSE i

\* \s*$ (MULTILINE) from position i: only spaces up to the end of the line.
at_line_end(text, i) ==
    LET j == skip_space(text, i) IN
    j > Len(text) \/ \E m \in i..(j - 1) : text[m].k = "nl"

\* The pattern matched at position i of the (upper-cased) text.
match_at(text, i, pat) ==
    LET e == match_labels(text, i, pat.labels) IN
    IF e = 0 THEN NoMatch
    ELSE IF pat.between = "colon"
    THEN LET j == skip_space(text, e)
             m == skip_space(text, IF IsAt(text, j, "colon") THEN j + 1 ELSE j) IN
         IF IsAt(text, m, "amt") THEN Match(text[m]) ELSE NoMatch
    ELSE IF pat.between = "letter"
    THEN LET m == skip_space(text, skip_letter(text, skip_space(text, e))) IN
         IF IsAt(text, m, "amt") THEN Match(text[m]) ELSE NoMatch
    ELSE LET d == skip_space(text, skip_letter(text, skip_space(text, e))) IN
         \* \d+%?\s*(\d+[.,]\d{2}): a number, or the leading digits of the amount
         \* itself, which leaves its last integer digit and its decimals.
         IF IsAt(text, d, "int")
         THEN LET m == skip_space(text, IF IsAt(text, d + 1, "pct") THEN d + 2 ELSE d + 1) IN
              IF IsAt(text, m, "amt") /\ at_line_end(text, m + 1)
              THEN Match(text[m]) ELSE NoMatch
         ELSE IF IsAt(text, d, "amt") /\ text[d].n >= 1000 /\ at_line_end(text, d + 1)
         THEN Match(Amount(text[d].n % 1000, text[d].sep))
         ELSE NoMatch

\* re.search(pattern, text_upper, ...): the leftmost match.
search(text, pat) ==
    LET hits == {i \in 1..Len(text) : match_at(text, i, pat).ok} IN
    IF hits = {} THEN NoMatch
    ELSE match_at(text, CHOOSE i \in hits : \A j \in hits : i <= j, pat)

\* Faulty variant of replace_comma: the amount is passed to float() as captured.
replace_comma_missing(a) == a

\* a.replace(',', '.')
replace_comma(a) == [a EXCEPT !.sep = "."]

\* float(a): the value (in cents), or a ValueError for a comma.
float_of(a) == [ok |-> a.sep = ".", value |-> a.n]

RECURSIVE total_from(_, _)
\* The loop over total_patterns, from pattern p: the first pattern that matches
\* and whose amount float() accepts gives the total.
total_from(text, p) ==
    IF p > Len(total_patterns) THEN None
    ELSE LET m == search(text, total_patterns[p]) IN
         IF m.ok /\ float_of(replace_comma(m.amount)).ok
         THEN Some(float_of(replace_comma(m.amount)).value)
         ELSE total_from(text, p + 1)

\* The bounds of `1 <= val <= 10000`, in cents.
MinValidAmount == 100
MaxValidAmount == 1000000

\* re.findall(r'(\d+[.,]\d{2})', ocr_text): the amounts, in text order.
amounts_of(text) == SelectSeq(text, LAMBDA t : t.k = "amt")

RECURSIVE valid_amounts(_)
\* The loop that fills valid_amounts.
valid_amounts(amounts) ==
    IF amounts = <<>> THEN <<>>
    ELSE LET f == float_of(replace_comma(Head(amounts))) IN
         IF f.ok /\ MinValidAmount <= f.value /\ f.value <= MaxValidAmount
         THEN <<f.value>> \o valid_amounts(Tail(amounts))
         ELSE valid_amounts(Tail(amounts))

\* Faulty variant of max_of: the first element.
max_of_first(vals) == vals[1]

\* max(vals), for a list that is not empty
max_of(vals) ==
    LET S == {vals[i] : i \in 1..Len(vals)} IN CHOOSE v \in S : \A w \in S : w <= v

\* Faulty variant of fallback_total: max() without the test, a ValueError for an
\* empty list.
fallback_total_unguarded(text) ==
    LET vals == valid_amounts(amounts_of(text)) IN
    IF vals # <<>> THEN [raised |-> FALSE, total |-> Some(max_of(vals))]
    ELSE [raised |-> TRUE, total |-> None]

\* The fallback: the largest valid amount, None without one.
fallback_total(text) ==
    LET vals == valid_amounts(amounts_of(text)) IN
    IF vals # <<>> THEN [raised |-> FALSE, total |-> Some(max_of(vals))]
    ELSE [raised |-> FALSE, total |-> None]

\* ------------------------------------------------------------------ items

\* A character of the class [A-Za-z...\s] of item_pattern.
IsNameToken(t) == t.k = "word" \/ IsSpace(t)

RECURSIVE name_start(_, _)
\* The first position of the run of name tokens that ends at position i.
name_start(text, i) ==
    IF i >= 1 /\ IsNameToken(text[i]) THEN name_start(text, i - 1) ELSE i + 1

\* item_pattern matched with its amount at position j: group(1) is the run of
\* name tokens before the amount less its last whitespace character, which
\* \s+ takes; the run starts after the previous match at the earliest.
item_match(text, j) ==
    LET st == name_start(text, j - 1) IN
    IF text[j].k = "amt" /\ j - st >= 2 /\ IsSpace(text[j - 1])
    THEN [ok |-> TRUE, name |-> SubSeq(text, st, j - 2), amount |-> text[j]]
    ELSE [ok |-> FALSE, name |-> <<>>, amount |-> text[j]]

RECURSIVE items_from(_, _)
\* The loop over re.finditer(item_pattern, ocr_text), from position j.
items_from(text, j) ==
    IF j > Len(text) THEN <<>>
    ELSE LET m == item_match(text, j)
             name == strip_tokens(m.name)
             price == float_of(replace_comma(m.amount)) IN
         IF m.ok /\ CharLen(name) > 2 /\ price.ok
         THEN <<[name |-> name, price |-> price.value]>> \o items_from(text, j + 1)
         ELSE items_from(text, j + 1)

\* ------------------------------------------------------ parse_receipt_ocr

\* The dict `result` as created.
new_result ==
    [raised |-> FALSE, store_name |-> None, date |-> None, total |-> None,
     items |-> <<>>]

\* parse_receipt_ocr(ocr_text): the returned dict, or raised = TRUE.
parse_receipt_ocr(text) ==
    IF text = <<>> THEN new_result
    ELSE LET lines == split_lines(strip_tokens(text))
             labelled == total_from(text_upper(text), 1)
             fallback == fallback_total(text) IN
         IF labelled = None /\ fallback.raised
         THEN [new_result EXCEPT !.raised = TRUE]
         ELSE [new_result EXCEPT
                  !.store_name = store_name_from(SubSeq(lines, 1, IF Len(lines) < 5
                                                                  THEN Len(lines) ELSE 5)),
                  !.date = date_from(text, 1),
                  !.total = IF labelled # None THEN labelled ELSE fallback.total,
                  !.items = items_from(text, 1)]

\* ------------------------------------------------------------------ inputs

\* The lines OCR texts are made of.
ReceiptLines ==
    {<<>>,
     <<Word("BIEDRONKA")>>,
     <<Word("ul"), DOT, SP, Word("Przykladowa"), SP, Number(1)>>,
     <<Date("ymd")>>,
     <<Word("Piwo"), SP, Amount(699, ".")>>,
     <<Word("Cola"), SP, Amount(450, ",")>>,
     <<Word("SUMA"), SP, Word("PLN"), COLON, SP, Amount(1149, ".")>>,
     <<Word("SUMA"), SP, Amount(1149, ".")>>,
     <<Word("Suma"), SP, Amount(0, ".")>>,
     <<Word("RAZEM"), COLON, SP, Amount(1000001, ",")>>,
     <<Word("GOTOWKA"), SP, Amount(2000, ".")>>,
     <<Amount(350, ".")>>,
     <<Amount(1200, "."), SP, Amount(4790, ".")>>,
     <<Amount(50, ".")>>,
     <<Word("PTU"), SP, Word("A"), SP, Number(23), PCT, SP, Amount(215, ",")>>}

RECURSIVE join_lines(_)
\* '\n'.join(lines)
join_lines(lines) ==
    IF lines = <<>> THEN <<>>
    ELSE IF Len(lines) = 1 THEN lines[1]
    ELSE lines[1] \o <<NL>> \o join_lines(Tail(lines))

\* The OCR texts: up to MaxLines lines.
OcrTexts ==
    {join_lines(ls) : ls \in UNION {[1..len -> ReceiptLines] : len \in 0..MaxLines}}

ParserInit ==
    /\ entries = <<>>
    /\ user_last_seen = [u \in Users |-> 0]
    /\ now = 0
    /\ calls = 0
    /\ tasks = {}
    /\ sent = [u \in Users |-> <<>>]
    /\ expected = {}
    /\ lastOp = NoOp
    /\ users = <<>>
    /\ WsIdle
    /\ RestIdle
    /\ ocr_text \in OcrTexts
    /\ result = [called |-> FALSE, value |-> new_result]

\* The call parse_receipt_ocr(ocr_text).
Parse ==
    /\ ~result.called
    /\ result' = [called |-> TRUE, value |-> parse_receipt_ocr(ocr_text)]
    /\ UNCHANGED <<ocr_text, vars, users, wsVars, restVars>>

ParserNext == Parse

ParserSpec == ParserInit /\ [][ParserNext]_wsAll

\* ------------------------------------------------------- claims of Part 3

\* The total patterns, by their place in the table, that match the text.
MatchingPatterns(text) ==
    {p \in 1..Len(total_patterns) : search(text_upper(text), total_patterns[p]).ok}

\* The text of the two lines "3.50" and "12.00 47.90".
ThreeAmounts == <<Amount(350, "."), NL, Amount(1200, "."), SP, Amount(4790, ".")>>

\* The text "SUMA PLN: 11.49".
SumaPln == <<Word("SUMA"), SP, Word("PLN"), COLON, SP, Amount(1149, ".")>>

\* C16: parse_receipt_ocr raises for no text, and for the empty string it returns
\* store_name, date and total null and an empty list of items.
C16_ParserNeverRaises ==
    result.called =>
        /\ ~result.value.raised
        /\ ocr_text = <<>> =>
              /\ result.value.store_name = None
              /\ result.value.date = None
              /\ result.value.total = None
              /\ result.value.items = <<>>

\* The function was called with the empty string and returned.
C16_Witness ==
    /\ result.called
    /\ ocr_text = <<>>
    /\ ~result.value.raised
    /\ result.value.items = <<>>

\* C17: when some total pattern matches the text, the total is the amount
\* captured by the first pattern of the table that matches, whatever its decimal
\* separator, and not the largest amount of the text; "SUMA PLN: 11.49" gives
\* 11.49.
C17_LabelledTotalFirstPattern ==
    result.called =>
        /\ MatchingPatterns(ocr_text) # {} =>
              LET p == CHOOSE q \in MatchingPatterns(ocr_text) :
                          \A o \in MatchingPatterns(ocr_text) : q <= o IN
              result.value.total =
                  Some(search(text_upper(ocr_text), total_patterns[p]).amount.n)
        /\ ocr_text = SumaPln => result.value.total = Some(1149)

\* A text with "SUMA PLN: 11.49", a later label (GOTOWKA) and a larger amount
\* (47.90) was parsed: the total is 11.49.
C17_Witness ==
    /\ result.called
    /\ result.value.total = Some(1149)
    /\ \E i \in 1..Len(ocr_text) : ocr_text[i] = Amount(4790, ".")
    /\ \E i \in 1..Len(ocr_text) : ocr_text[i] = Word("GOTOWKA")

\* C18: when no total pattern matches, the total is the largest of the amounts
\* of the text that lie in the valid range, and null when none does; the amounts
\* 3.50, 12.00, 47.90 give 47.90.
C18_FallbackLargestPlausible ==
    result.called =>
        /\ MatchingPatterns(ocr_text) = {} =>
              LET plausible == {ocr_text[i].n : i \in
                                  {j \in 1..Len(ocr_text) :
                                      /\ ocr_text[j].k = "amt"
                                      /\ ocr_text[j].n >= MinValidAmount
                                      /\ ocr_text[j].n <= MaxValidAmount}} IN
              IF plausible = {}
              THEN result.value.total = None
              ELSE /\ result.value.total # None
                   /\ result.value.total[1] \in plausible
                   /\ \A v \in plausible : v <= result.value.total[1]
        /\ ocr_text = ThreeAmounts => result.value.total = Some(4790)

\* The text with the amounts 3.50, 12.00 and 47.90 and no label was parsed.
C18_Witness ==
    /\ result.called
    /\ ocr_text = ThreeAmounts
    /\ MatchingPatterns(ocr_text) = {}
    /\ result.value.total = Some(4790)

\* C19: the total returned is null or a plausible amount: greater than zero and
\* not above the ceiling of the valid range.
C19_TotalPlausible ==
    result.called =>
        \/ result.value.total = None
        \/ /\ result.value.total[1] > 0
           /\ result.value.total[1] <= MaxValidAmount

\* The text contains the word, in any case.
ContainsWord(text, str) ==
    \E i \in 1..Len(text) : text[i].k = "word" /\ upper(text[i].s) = str

\* C20: store_name is the canonical name of the known store whose pattern occurs
\* in the text: "Biedronka" for a text containing BIEDRONKA; and it is unset when
\* the text names no known store.
C20_StoreNameCanonical ==
    result.called =>
        IF ContainsWord(ocr_text, "BIEDRONKA")
        THEN result.value.store_name = Some(<<Word("Biedronka")>>)
        ELSE result.value.store_name = None

\* The name contains the word, in any case.
NameContains(name, str) ==
    \E i \in 1..Len(name) : name[i].k = "word" /\ upper(name[i].s) = str

\* The category of the first keyword group with a keyword in the name.
SuggestedCategory(name) ==
    IF NameContains(name, "PIWO") THEN "bar_alcohol"
    ELSE IF NameContains(name, "COLA") THEN "bar_beverages"
    ELSE "other"

\* C21: every item returned carries a category, the one of the first keyword
\* group that matches its name: bar_alcohol for a name containing "Piwo",
\* bar_beverages for one containing "Cola", other for a name matching no keyword.
C21_ItemCategorySuggested ==
    result.called =>
        \A i \in 1..Len(result.value.items) :
            LET item == result.value.items[i] IN
            /\ "category" \in DOMAIN item
            /\ item.category = SuggestedCategory(item.name)

\* The label words that a name of an item must not contain.
BlacklistedLabels == {"SUMA", "RAZEM", "VAT", "GOTOWKA", "KARTA", "RESZTA"}

\* C22: no item returned has a name containing a blacklisted label (suma, razem,
\* vat, gotowka, karta, reszta): the lines "SUMA 11.49" and "GOTOWKA 20.00" give
\* no item.
C22_NoLabelAmongItems ==
    result.called =>
        \A i \in 1..Len(result.value.items) :
            \A label \in BlacklistedLabels :
                ~NameContains(result.value.items[i].name, label)

\* ------------------------------------------- further claims of Part 2

\* WebSocket k is the channel user u registered last.
LatestChannel(hs, u, k) ==
    /\ hs[k].kind = "ws"
    /\ hs[k].user = u
    /\ \A j \in (k + 1)..Len(hs) : ~(hs[j].kind = "ws" /\ hs[j].user = u)

\* User u has registered more than one channel.
DuplicateLogin(hs, u) ==
    Cardinality({j \in 1..Len(hs) : hs[j].kind = "ws" /\ hs[j].user = u}) >= 2

\* C23: after a duplicate login of user u, nothing that happens on an earlier
\* channel of u (its disconnect, or a send that failed on it before it was
\* replaced) unregisters u: while the channel u registered last stays open, so
\* that no send to it fails, u stays registered with that channel.
C23_DuplicateLoginStaysOnline ==
    [][\A u \in DOMAIN users : \A k \in 1..Len(handlers) :
          (/\ DuplicateLogin(handlers, u)
           /\ LatestChannel(handlers, u, k)
           /\ LatestChannel(handlers', u, k)
           /\ handlers[k].open
           /\ handlers'[k].open
           /\ is_online(entries, u)
           /\ DictGet(entries, u) = k) =>
              /\ is_online(entries', u)
              /\ DictGet(entries', u) = k
      ]_wsAll

\* The handler of WebSocket k has ended: it returned, or an error left it.
HandlerEnded(h) == h.kind = "ws" /\ h.pc \in {"ended", "failed"}

\* C24: the registry holds no channel whose handler has ended, however it ended:
\* by the disconnect of the client, a malformed frame, a failed pong or an error
\* raised in a broadcast the handler called.
C24_NoChannelOfEndedHandler ==
    \A k \in 1..Len(handlers) :
        HandlerEnded(handlers[k]) =>
            ~(/\ is_online(entries, handlers[k].user)
              /\ DictGet(entries, handlers[k].user) = k)

\* The connection handlers when table users also holds deactivated accounts:
\* every user has a row, active or not.
AccountsInit ==
    /\ entries = <<>>
    /\ user_last_seen = [u \in WsUsers |-> 0]
    /\ now = 0
    /\ calls = 0
    /\ tasks = {}
    /\ sent = [u \in Users |-> <<>>]
    /\ expected = {}
    /\ lastOp = NoOp
    /\ users \in [WsUsers -> {UserRow(TRUE), UserRow(FALSE)}]
    /\ WsIdle
    /\ ParserIdle
    /\ RestIdle

AccountsSpec == AccountsInit /\ [][WsNext]_wsAll

\* C27: a user whose account is inactive is never registered in the broker: the
\* WebSocket endpoint refuses the valid token of such a user, as get_current_user
\* does.
C27_InactiveNeverRegistered ==
    \A u \in DOMAIN users : ~users[u].is_active => ~is_online(entries, u)

\* =========================================================================
\* Part 4: send_private_message (main.py:1363-1391), which calls
\* send_personal_message of the broker twice, for the recipient and for the
\* sender.  It is a coroutine like the handlers of Part 2 and runs beside them.
\* =========================================================================

\* ------------------------------------------------------------------ bounds
\* The user ids that have a row in table users.
MaxPmUsers == 3
\* The WebSocket connections opened in one run.
MaxPmConns == 2
\* The POST /api/messages/{user_id} requests made in one run.
MaxPmPosts == 1

PmUsers == 1..MaxPmUsers

\* The contents a client submits: whitespace only, and text with whitespace
\* around it.
PmContents == {<<Run(" ", 2)>>, <<Run(" ", 1), Run("a", 3), Run(" ", 2)>>}

\* Faulty variant of private_recipients: the event goes to every user id.
private_recipients_everyone(sender, recipient) == [i \in 1..MaxPmUsers |-> i]

\* The users the event is pushed to, in the order of the two
\* send_personal_message calls: the recipient, then the sender.
private_recipients(sender, recipient) == <<recipient, sender>>

\* The coroutine of send_private_message: the sender (current_user), the
\* recipient, the event being pushed (bc: content, and the user and channel of
\* the pending send_json), and the users still to be pushed to after that send.
PmHandler(p, sender, recipient, content, rest) ==
    [kind |-> "pm", pc |-> p, user |-> sender, open |-> FALSE,
     bc |-> [NoBc EXCEPT !.type = "private_message", !.user_id = sender,
                         !.content = content],
     recipient |-> recipient, rest |-> rest]

RECURSIVE pm_advance(_, _, _)
\* send_private_message from the call of send_personal_message for the first of
\* the users `rest` to its next await or its return: a user that is not
\* registered is passed over.
pm_advance(d, h, rest) ==
    IF rest = <<>>
    THEN [h EXCEPT !.pc = "returned", !.bc.to = 0, !.bc.chan = 0, !.rest = <<>>]
    ELSE LET r == send_personal_lookup(d, Head(rest)) IN
         IF r.act = "send"
         THEN [h EXCEPT !.pc = "send_personal", !.bc.to = Head(rest),
                        !.bc.chan = r.chan, !.rest = Tail(rest)]
         ELSE pm_advance(d, h, Tail(rest))

PmInit ==
    /\ entries = <<>>
    /\ user_last_seen = [u \in PmUsers |-> 0]
    /\ now = 0
    /\ calls = 0
    /\ tasks = {}
    /\ sent = [u \in Users |-> <<>>]
    /\ expected = {}
    /\ lastOp = NoOp
    /\ users = [u \in PmUsers |-> UserRow(TRUE)]
    /\ WsIdle
    /\ ParserIdle
    /\ RestIdle

\* A request to send_private_message and its response so far: status 0 while
\* the coroutine is suspended.
PmRequest(sender, to, v, code) ==
    [op |-> "send_private_message", sender |-> sender, recipient |-> to,
     content |-> v, status |-> code]

\* POST /api/messages/{to} by user s (authenticated by get_current_user) with
\* content v: validation by PrivateMessageCreate (a 422 on failure), the lookup
\* of the recipient (a 404 without a row), the insert, and
\* send_personal_message for the recipient up to its await.
PostPrivate(s, to, v) ==
    /\ frames < MaxPmPosts
    /\ s \in DOMAIN users
    /\ users[s].is_active
    /\ frames' = frames + 1
    /\ wsLast' = WsStep("post_private", Len(handlers) + 1, <<>>)
    /\ LET data == content_not_empty(v) IN
       IF ~data.ok
       THEN /\ restLast' = PmRequest(s, to, v, 422)
            /\ UNCHANGED <<handlers, private_messages>>
       ELSE IF to \notin DOMAIN users
       THEN /\ restLast' = PmRequest(s, to, v, 404)
            /\ UNCHANGED <<handlers, private_messages>>
       ELSE LET h == pm_advance(entries,
                                PmHandler("called", s, to, data.value, <<>>),
                                private_recipients(s, to)) IN
            /\ private_messages' = Append(private_messages,
                   [sender_id |-> s, recipient_id |-> to, content |-> data.value])
            /\ handlers' = Append(handlers, h)
            /\ restLast' = PmRequest(s, to, v, IF h.pc = "returned" THEN 200 ELSE 0)
    /\ UNCHANGED <<entries, user_last_seen, now, chat_messages, costs, receipts>>
    /\ UNCHANGED <<calls, tasks, sent, expected, lastOp, users, parserVars>>

\* send_private_message resumed from the send_json of send_personal_message: a
\* failed send unregisters the user; then the next send_personal_message call,
\* or the return of the event to the caller.
PmResume(k) ==
    /\ k \in 1..Len(handlers)
    /\ handlers[k].pc = "send_personal"
    /\ LET h == handlers[k]
           ok == send_ok(handlers, h.bc.chan)
           r == send_personal_after(entries, user_last_seen, now, h.bc.to, ok)
           g == pm_advance(r.entries, h, h.rest) IN
       /\ entries' = r.entries
       /\ user_last_seen' = r.user_last_seen
       /\ now' = r.now
       /\ handlers' = [handlers EXCEPT ![k] = g]
       /\ restLast' = PmRequest(h.user, h.recipient, restLast.content,
                                IF g.pc = "returned" THEN 200 ELSE 0)
    /\ wsLast' = WsStep("resume_private", 0, <<>>)
    /\ UNCHANGED <<chat_messages, frames, private_messages, costs, receipts>>
    /\ UNCHANGED <<calls, tasks, sent, expected, lastOp, users, parserVars>>

PmNext ==
    \/ Opened < MaxPmConns /\ \E u \in PmUsers : Open([valid |-> TRUE, sub |-> u])
    \/ \E k \in 1..Len(handlers) : Resume(k)
    \/ \E k \in 1..Len(handlers) : ClientClose(k)
    \/ \E k \in 1..Len(handlers) : Disconnected(k)
    \/ \E s \in PmUsers, to \in 1..(MaxPmUsers + 1), v \in PmContents : PostPrivate(s, to, v)
    \/ \E k \in 1..Len(handlers) : PmResume(k)

\* The WebSocket handlers and one private message, running concurrently.
PmSpec == PmInit /\ [][PmNext]_wsAll

\* ------------------------------------------------------- claims of Part 4

\* The row the request of coroutine h inserted.
PmRow(h) == [sender_id |-> h.user, recipient_id |-> h.recipient, content |-> h.bc.content]

\* C26: a private message is pushed only to the channel registered for its
\* recipient and the one registered for its sender, never to a channel of another
\* user; and it is persisted and returned to the caller, also when neither of
\* the two is registered: then the request ends at once with the registry as it
\* was.
C26_PrivateOnlyToParties ==
    /\ [](\A k \in 1..Len(handlers) :
            handlers[k].kind = "pm" =>
                /\ \E i \in 1..Len(private_messages) :
                      private_messages[i] = PmRow(handlers[k])
                /\ handlers[k].pc \in {"send_personal", "returned"}
                /\ handlers[k].pc = "send_personal" =>
                      /\ handlers[k].bc.to \in {handlers[k].user, handlers[k].recipient}
                      /\ handlers[handlers[k].bc.chan].kind = "ws"
                      /\ handlers[handlers[k].bc.chan].user = handlers[k].bc.to)
    /\ [][(/\ wsLast'.step = "post_private"
           /\ restLast'.status \notin {404, 422}) =>
              /\ Len(handlers') = Len(handlers) + 1
              /\ private_messages' = Append(private_messages, PmRow(handlers'[Len(handlers')]))
              /\ PmRow(handlers'[Len(handlers')]) =
                     [sender_id |-> restLast'.sender, recipient_id |-> restLast'.recipient,
                      content |-> strip(restLast'.content)]
              /\ (/\ ~is_online(entries, restLast'.sender)
                  /\ ~is_online(entries, restLast'.recipient)) =>
                     /\ restLast'.status = 200
                     /\ handlers'[Len(handlers')].pc = "returned"
                     /\ entries' = entries
         ]_wsAll

\* A private message is being pushed to its recipient while a user that is
\* neither its sender nor its recipient is registered.
C26_Witness ==
    \E k \in 1..Len(handlers) :
        /\ handlers[k].kind = "pm"
        /\ handlers[k].pc = "send_personal"
        /\ handlers[k].bc.to = handlers[k].recipient
        /\ handlers[k].recipient # handlers[k].user
        /\ get_online_users(entries) \ {handlers[k].user, handlers[k].recipient} # {}

\* =========================================================================
\* Part 5: the user accounts: startup_event (main.py:105-154), the
\* authentication helpers (main.py:297-319) and create_user, update_user and
\* delete_user (main.py:371-424).  Table users maps the id of a row to its
\* email, role and is_active.  The requests are synchronous handlers: each is
\* one step.
\* =========================================================================

\* ------------------------------------------------------------------ bounds
\* The requests to the user endpoints in one run.
MaxUserRequests == 3

Roles == {"owner", "manager", "worker"}

\* The addresses requests carry: one that is taken and one that is free.
RequestEmails == {"admin", "nowy"}

\* A row of table users (models.py:92-103).
UserRecord(email, role, active) == [email |-> email, role |-> role, is_active |-> active]

\* The id the database gives a new row: one above the largest id of the table
\* (SQLite's rule for an INTEGER PRIMARY KEY, the database of database.py's
\* default URL).
next_id(table) ==
    IF DOMAIN table = {} THEN 1
    ELSE (CHOOSE i \in DOMAIN table : \A j \in DOMAIN table : j <= i) + 1

\* db.add(row); db.commit()
db_insert(table, row) ==
    LET id == next_id(table) IN
    [i \in DOMAIN table \cup {id} |-> IF i = id THEN row ELSE table[i]]

\* db.delete(row); db.commit()
db_delete(table, id) == [i \in DOMAIN table \ {id} |-> table[i]]

\* db.query(User).filter(User.email == email).first() finds a row.
email_exists(table, email) == \E i \in DOMAIN table : table[i].email = email

\* get_current_user for a token whose sub is `actor`: 401 without a row and for
\* an inactive account, else 200 (the row is the current user).
get_current_user(table, actor) ==
    IF actor \notin DOMAIN table THEN 401
    ELSE IF ~table[actor].is_active THEN 401
    ELSE 200

\* require_role(roles): get_current_user, then 403 for a role not in the list.
require_role(table, actor, roles) ==
    IF get_current_user(table, actor) # 200 THEN get_current_user(table, actor)
    ELSE IF table[actor].role \notin roles THEN 403
    ELSE 200

\* What a handler leaves: the response status and the table.
Response(code, table) == [status |-> code, users |-> table]

\* startup_event, the part on users: without a row whose role is owner, the
\* three default users are inserted.
startup_event(table) ==
    IF \E i \in DOMAIN table : table[i].role = "owner" THEN table
    ELSE db_insert(db_insert(db_insert(table,
             UserRecord("admin", "owner", TRUE)),
             UserRecord("manager", "manager", TRUE)),
             UserRecord("pracownik", "worker", TRUE))

\* UserCreate (schemas.py:130-136): email and role.
UserCreates == [email : RequestEmails, role : Roles]

\* UserUpdate (schemas.py:147-152): every field is optional; "unset" is a field
\* the request does not carry; is_active is written as in the JSON body.
UserUpdates == [email : {"unset", "nowy"},
                role : {"unset"} \cup Roles,
                is_active : {"unset", "true", "false"}]

\* create_user(data) by the user with id `actor`.
create_user(table, actor, data) ==
    IF require_role(table, actor, {"owner", "manager"}) # 200
    THEN Response(require_role(table, actor, {"owner", "manager"}), table)
    ELSE IF email_exists(table, data.email) THEN Response(400, table)
    ELSE IF table[actor].role = "manager" /\ data.role # "worker" THEN Response(403, table)
    ELSE Response(200, db_insert(table, UserRecord(data.email, data.role, TRUE)))

\* The loop of update_user: setattr for every field the request carries.
apply_update(row, data) ==
    [email |-> IF data.email = "unset" THEN row.email ELSE data.email,
     role |-> IF data.role = "unset" THEN row.role ELSE data.role,
     is_active |-> IF data.is_active = "unset" THEN row.is_active
                   ELSE data.is_active = "true"]

\* The guard of update_user: a manager must not edit an owner.
update_user_guard(actor_role, target_role) ==
    actor_role = "manager" /\ target_role = "owner"

\* update_user(user_id, data) by the user with id `actor`; the commit fails
\* (IntegrityError, a 500) when the new email is that of another row, and
\* nothing is written.
update_user(table, actor, user_id, data) ==
    IF require_role(table, actor, {"owner", "manager"}) # 200
    THEN Response(require_role(table, actor, {"owner", "manager"}), table)
    ELSE IF user_id \notin DOMAIN table THEN Response(404, table)
    ELSE IF update_user_guard(table[actor].role, table[user_id].role)
    THEN Response(403, table)
    ELSE LET row == apply_update(table[user_id], data) IN
         IF \E i \in DOMAIN table \ {user_id} : table[i].email = row.email
         THEN Response(500, table)
         ELSE Response(200, [table EXCEPT ![user_id] = row])

\* The self-deletion test of delete_user.
delete_user_self(user_id, actor) == user_id = actor

\* delete_user(user_id) by the user with id `actor`.
delete_user(table, actor, user_id) ==
    IF require_role(table, actor, {"owner"}) # 200
    THEN Response(require_role(table, actor, {"owner"}), table)
    ELSE IF user_id \notin DOMAIN table THEN Response(404, table)
    ELSE IF delete_user_self(user_id, actor) THEN Response(400, table)
    ELSE Response(200, db_delete(table, user_id))

\* ------------------------------------------------------------------ state

\* A request to the user endpoints: its number in the run, the operation, the
\* id and (before the request) the role of the caller, the id of the row it
\* names, the role it asks for, and the response status.
UserRequest(n, op, actor, role, target, asked, code) ==
    [op |-> op, n |-> n, actor |-> actor, actor_role |-> role, target |-> target,
     asked |-> asked, status |-> code]

\* The role of the caller, "none" for a caller without a row.
role_of(table, actor) == IF actor \in DOMAIN table THEN table[actor].role ELSE "none"

\* The process has not started: no table has a row.
UsersInit ==
    /\ entries = <<>>
    /\ user_last_seen = [u \in Users |-> 0]
    /\ now = 0
    /\ calls = 0
    /\ tasks = {}
    /\ sent = [u \in Users |-> <<>>]
    /\ expected = {}
    /\ lastOp = NoOp
    /\ users = <<>>
    /\ WsIdle
    /\ ParserIdle
    /\ RestIdle

\* The variables the user endpoints do not touch.
usersOther == <<vars, wsVars, parserVars, private_messages, costs, receipts>>

\* The process starts.
Startup ==
    /\ restLast.op = "init"
    /\ users' = startup_event(users)
    /\ restLast' = UserRequest(0, "startup", 0, "none", 0, "unset", 200)
    /\ UNCHANGED usersOther

\* The ids a request can name: those of the rows, and the next one.
UserIds == DOMAIN users \cup {next_id(users)}

\* The server is up and the run has requests left.
Serving == restLast.op # "init" /\ restLast.n < MaxUserRequests

\* POST /api/users
CreateUser(actor, data) ==
    /\ Serving
    /\ LET r == create_user(users, actor, data) IN
          /\ users' = r.users
          /\ restLast' = UserRequest(restLast.n + 1, "create_user", actor,
                                     role_of(users, actor), next_id(users), data.role,
                                     r.status)
    /\ UNCHANGED usersOther

\* PUT /api/users/{user_id}
UpdateUser(actor, user_id, data) ==
    /\ Serving
    /\ LET r == update_user(users, actor, user_id, data) IN
          /\ users' = r.users
          /\ restLast' = UserRequest(restLast.n + 1, "update_user", actor,
                                     role_of(users, actor), user_id, data.role, r.status)
    /\ UNCHANGED usersOther

\* DELETE /api/users/{user_id}
DeleteUser(actor, user_id) ==
    /\ Serving
    /\ LET r == delete_user(users, actor, user_id) IN
          /\ users' = r.users
          /\ restLast' = UserRequest(restLast.n + 1, "delete_user", actor,
                                     role_of(users, actor), user_id, "unset", r.status)
    /\ UNCHANGED usersOther

UsersNext ==
    \/ Startup
    \/ \E actor \in UserIds, data \in UserCreates : CreateUser(actor, data)
    \/ \E actor \in UserIds, user_id \in UserIds, data \in UserUpdates :
          UpdateUser(actor, user_id, data)
    \/ \E actor \in UserIds, user_id \in UserIds : DeleteUser(actor, user_id)

UsersSpec == UsersInit /\ [][UsersNext]_wsAll

\* ------------------------------------------------------- claims of Part 5

\* C25: no create_user or update_user request made by a manager leaves a user
\* with the role owner or manager that the user did not hold before the request
\* (so no sequence of such requests does), and none changes the row of an owner.
C25_ManagerCannotEscalate ==
    [][(/\ restLast'.op \in {"create_user", "update_user"}
        /\ restLast'.actor_role = "manager") =>
          /\ \A u \in DOMAIN users' :
                users'[u].role \in {"owner", "manager"} =>
                    /\ u \in DOMAIN users
                    /\ users[u].role = users'[u].role
          /\ \A u \in DOMAIN users :
                users[u].role = "owner" =>
                    /\ u \in DOMAIN users'
                    /\ users'[u] = users[u]
      ]_wsAll

\* C30: once startup has created the default owner, table users always holds an
\* active user whose role is owner, whatever create_user, update_user and
\* delete_user requests are made.
C30_ActiveOwnerRemains ==
    restLast.op # "init" =>
        \E u \in DOMAIN users : users[u].role = "owner" /\ users[u].is_active

\* =========================================================================
\* Part 6: costs and receipts: create_cost and update_cost (main.py:747-791),
\* upload_receipt (main.py:1019-1056) and receipt_to_cost (main.py:1098-1123),
\* with their schemas (schemas.py:305-325, 397-402).  Amounts are in cents, as
\* in Part 3.  Table users holds the default users of startup_event and does
\* not change here; the events are the sample events startup_event creates.
\* =========================================================================

\* ------------------------------------------------------------------ bounds
\* The requests to the cost and receipt endpoints in one run.
MaxCostRequests == 4

\* The ids of the sample events.
SampleEvents == {1, 2, 3}

\* The event ids requests carry: one with a row and one without.
RequestEvents == {1, 4}

\* The amounts requests carry: -5.00, 0.00 and 10.00.
RequestAmounts == {0 - 500, 0, 1000}

\* The callers: the default manager and the default worker.
CostActors == {2, 3}

\* x or y, for optional numbers: x when it is neither None nor zero.
py_or(x, y) == IF x # None /\ x[1] # 0 THEN x ELSE y

\* CostCreate.amount_positive (schemas.py:313-318): a ValueError for v <= 0.
amount_positive(v) == [ok |-> v > 0, value |-> v]

\* CostCreate: amount is required; receipt_id is optional.
CostCreates == [event_id : RequestEvents, amount : RequestAmounts,
                receipt_id : {None, Some(1)}]

\* CostUpdate: amount is optional (a field the request does not carry has
\* set = FALSE) and may be null; no validator.
CostUpdates ==
    {[set |-> FALSE, amount |-> None]}
        \cup [set : {TRUE}, amount : {None} \cup {Some(a) : a \in RequestAmounts}]

\* ReceiptToCost: amount is optional.
ReceiptToCosts == [event_id : RequestEvents,
                   amount : {None} \cup {Some(a) : a \in RequestAmounts}]

\* The uploaded file: whether its content type starts with "image/" and
\* whether it is larger than 10 MB.
Uploads == [image : BOOLEAN, large : BOOLEAN]

\* A row of table costs: `via` is the endpoint that inserted it.
CostRow(event_id, amount, receipt_id, via) ==
    [event_id |-> event_id, amount |-> amount, receipt_id |-> receipt_id, via |-> via]

\* A row of table receipts.
ReceiptRow(store_name, total_amount, status) ==
    [store_name |-> store_name, total_amount |-> total_amount, status |-> status]

\* The text the mock OCR of upload_receipt returns (main.py:1036).
MockOcrText ==
    join_lines(<< <<Word("BIEDRONKA")>>,
                  <<Word("ul"), DOT, SP, Word("Przykladowa"), SP, Number(1)>>,
                  <<Date("ymd")>>,
                  <<Word("Piwo"), SP, Amount(699, ".")>>,
                  <<Word("Chipsy"), SP, Amount(450, ".")>>,
                  <<Word("SUMA"), SP, Word("PLN"), COLON, SP, Amount(1149, ".")>> >>)

\* What a handler leaves: the response status and the two tables.
CostResponse(code, cs, rs) == [status |-> code, costs |-> cs, receipts |-> rs]

\* create_cost(data) by the user with id `actor`: 422 from the validator of
\* CostCreate, then the role check, the lookup of the event and the insert.
create_cost(table, cs, rs, actor, data) ==
    IF ~amount_positive(data.amount).ok THEN CostResponse(422, cs, rs)
    ELSE IF require_role(table, actor, {"owner", "manager"}) # 200
    THEN CostResponse(require_role(table, actor, {"owner", "manager"}), cs, rs)
    ELSE IF data.event_id \notin SampleEvents THEN CostResponse(404, cs, rs)
    ELSE CostResponse(200,
             Append(cs, CostRow(data.event_id, data.amount, data.receipt_id, "create_cost")),
             rs)

\* update_cost(cost_id, data): setattr for the fields the request carries; a
\* null amount fails at the commit (the column is NOT NULL), a 500.
update_cost(table, cs, rs, actor, cost_id, data) ==
    IF require_role(table, actor, {"owner", "manager"}) # 200
    THEN CostResponse(require_role(table, actor, {"owner", "manager"}), cs, rs)
    ELSE IF cost_id \notin 1..Len(cs) THEN CostResponse(404, cs, rs)
    ELSE IF ~data.set THEN CostResponse(200, cs, rs)
    ELSE IF data.amount = None THEN CostResponse(500, cs, rs)
    ELSE CostResponse(200, [cs EXCEPT ![cost_id].amount = data.amount[1]], rs)

\* upload_receipt(file) by the user with id `actor`: the checks of the file, the
\* parse of the OCR text, and the insert of a pending receipt.
upload_receipt(table, cs, rs, actor, file) ==
    IF get_current_user(table, actor) # 200
    THEN CostResponse(get_current_user(table, actor), cs, rs)
    ELSE IF ~file.image THEN CostResponse(400, cs, rs)
    ELSE IF file.large THEN CostResponse(400, cs, rs)
    ELSE LET parsed == parse_receipt_ocr(MockOcrText) IN
         CostResponse(200, cs,
             Append(rs, ReceiptRow(parsed.store_name, parsed.total, "pending")))

\* `data.amount or receipt.total_amount or 0`
receipt_amount(amount, total_amount) == py_or(py_or(amount, total_amount), Some(0))[1]

\* receipt_to_cost(receipt_id, data): the lookups, the insert of the cost and
\* the update of the receipt.
receipt_to_cost(table, cs, rs, actor, receipt_id, data) ==
    IF require_role(table, actor, {"owner", "manager"}) # 200
    THEN CostResponse(require_role(table, actor, {"owner", "manager"}), cs, rs)
    ELSE IF receipt_id \notin 1..Len(rs) THEN CostResponse(404, cs, rs)
    ELSE IF data.event_id \notin SampleEvents THEN CostResponse(404, cs, rs)
    ELSE CostResponse(200,
             Append(cs, CostRow(data.event_id,
                                receipt_amount(data.amount, rs[receipt_id].total_amount),
                                Some(receipt_id), "receipt_to_cost")),
             [rs EXCEPT ![receipt_id].status = "processed"])

\* ------------------------------------------------------------------ state

\* A request to the cost and receipt endpoints: its number in the run, the
\* operation, the row it names and the response status.
CostRequest(n, op, target, code) == [op |-> op, n |-> n, target |-> target, status |-> code]

\* After startup: the default users, no cost and no receipt.
CostInit ==
    /\ entries = <<>>
    /\ user_last_seen = [u \in Users |-> 0]
    /\ now = 0
    /\ calls = 0
    /\ tasks = {}
    /\ sent = [u \in Users |-> <<>>]
    /\ expected = {}
    /\ lastOp = NoOp
    /\ users = startup_event(<<>>)
    /\ WsIdle
    /\ ParserIdle
    /\ private_messages = <<>>
    /\ costs = <<>>
    /\ receipts = <<>>
    /\ restLast = CostRequest(0, "startup", 0, 200)

\* The variables the cost and receipt endpoints do not touch.
costOther == <<vars, users, wsVars, parserVars, private_messages>>

\* The state a request leaves.
CostResult(r, op, target) ==
    /\ restLast.n < MaxCostRequests
    /\ costs' = r.costs
    /\ receipts' = r.receipts
    /\ restLast' = CostRequest(restLast.n + 1, op, target, r.status)
    /\ UNCHANGED costOther

\* POST /api/costs
CreateCost(actor, data) ==
    CostResult(create_cost(users, costs, receipts, actor, data), "create_cost", 0)

\* PUT /api/costs/{cost_id}
UpdateCost(actor, cost_id, data) ==
    CostResult(update_cost(users, costs, receipts, actor, cost_id, data),
               "update_cost", cost_id)

\* POST /api/receipts/upload
UploadReceipt(actor, file) ==
    CostResult(upload_receipt(users, costs, receipts, actor, file), "upload_receipt", 0)

\* POST /api/receipts/{receipt_id}/to-cost
ReceiptToCost(actor, receipt_id, data) ==
    CostResult(receipt_to_cost(users, costs, receipts, actor, receipt_id, data),
               "receipt_to_cost", receipt_id)

CostNext ==
    \/ \E actor \in CostActors, data \in CostCreates : CreateCost(actor, data)
    \/ \E actor \in CostActors, cost_id \in 1..(Len(costs) + 1), data \in CostUpdates :
          UpdateCost(actor, cost_id, data)
    \/ \E actor \in CostActors, file \in Uploads : UploadReceipt(actor, file)
    \/ \E actor \in CostActors, receipt_id \in 1..(Len(receipts) + 1),
          data \in ReceiptToCosts : ReceiptToCost(actor, receipt_id, data)

CostSpec == CostInit /\ [][CostNext]_wsAll

\* ------------------------------------------------------- claims of Part 6

\* C28: every row of table costs has an amount greater than zero, whatever
\* create_cost, update_cost and receipt_to_cost requests were made.
C28_CostAmountPositive ==
    \A i \in 1..Len(costs) : costs[i].amount > 0

\* The costs that receipt_to_cost created from receipt id.
CostsOfReceipt(id) ==
    {i \in 1..Len(costs) :
        costs[i].via = "receipt_to_cost" /\ costs[i].receipt_id = Some(id)}

\* C29: a receipt is converted into a cost at most once: its status changes only
\* from pending to processed, receipt_to_cost on a processed receipt inserts no
\* cost, and so at most one cost that receipt_to_cost created names a receipt.
C29_ReceiptConvertedOnce ==
    /\ [](\A id \in 1..Len(receipts) : Cardinality(CostsOfReceipt(id)) <= 1)
    /\ [][/\ \A id \in 1..Len(receipts) :
                receipts'[id].status # receipts[id].status =>
                    (receipts[id].status = "pending" /\ receipts'[id].status = "processed")
          /\ (/\ restLast'.op = "receipt_to_cost"
              /\ restLast'.target \in 1..Len(receipts)
              /\ receipts[restLast'.target].status = "processed") => costs' = costs
         ]_wsAll

====
